---- MODULE Spec2Model ----
(***************************************************************************)
(* Session/transport layer of the storage REST client:                     *)
(*   base.RestClient        (Call, BaseCall, GetRequest, Login, loginCall, *)
(*                           setDataFromRespData, Logout, ReLogin,         *)
(*                           SetSystemInfo, GetSystem, ValidateLogin)      *)
(*   client.OceanstorClient (SafeCall, SafeBaseCall, safeDoCall)           *)
(* Every goroutine is a process with a call stack of frames; one action is *)
(* one step of the function on top of the stack.  The storage array is the *)
(* environment: Client.Do answers with any reply of ArrayReplies.          *)
(***************************************************************************)
EXTENDS Integers, Sequences, FiniteSets, TLC

(* ------------------------------ bounds -------------------------------- *)
\* longest configured address list
MaxUrls == 3
\* nesting depth of Call (through SetSystemInfo) up to which the array may
\* still answer "session expired"
MaxDepth == 2
\* per-client permit capacity chosen at construction (1..30 in the program)
ParallelCount == 1
\* capacity of a device-level semaphore (MaxStorageThreads of the program)
MaxStorageThreads == 1

(* --------------------------- program values --------------------------- *)
\* registry key of the default bucket
UninitializedStorage == "UninitializedStorage"
Unconnected == "unconnected"
LoginPath == "/xx/sessions"
LogoutPath == "/sessions"
SystemPath == "/system/"
LunPath == "/lun"
RestSuffix == "/deviceManager/rest"
\* business codes: success, session expired, a lockout class, any other
CodeOK == 0
SessionExpired == 0 - 401
LockoutCode == 1
OtherCode == 2
\* the error object of the reply has no numeric code
NoCode == 0 - 1

Procs == {"p1", "p2"}
Sessions == {"s1", "s2"}
NoSession == "none"
UrlNames == <<"u1", "u2", "u3", "u4", "u5">>
Tokens == {"T1", "T2"}
DeviceOfArray == "D1"
Absent == "?"
Free == "free"

VARIABLES
  Urls,                 \* cli.Urls: the ordered address list
  Url,                  \* cli.Url: <<address, RestSuffix>> or <<>>
  DeviceId,             \* cli.DeviceId
  Token,                \* cli.Token
  Client,               \* cli.Client # nil
  SystemInfoRefreshing, \* cli.SystemInfoRefreshing (atomic uint32)
  ReLoginMutex,         \* holder of cli.ReLoginMutex, or Free
  RequestSemaphore,     \* permits held on cli.RequestSemaphore
  CurrentLifWwn,        \* cli.CurrentLifWwn
  CurrentSiteWwn,       \* cli.CurrentSiteWwn
  RequestSemaphoreMap,  \* registry: key -> semaphore object (0 = nil)
  semHeld,              \* semaphore object -> permits held; Len = objects made
  stk,                  \* per process: call stack, top = last
  sess,                 \* per process: the session it works on
  scn,                  \* the scenario: what the environment may do
  eval,                 \* the evaluation of a function of the configuration
  crashed               \* a goroutine panicked (nil dereference)

sessVars == <<Urls, Url, DeviceId, Token, Client, SystemInfoRefreshing,
              ReLoginMutex, RequestSemaphore, CurrentLifWwn, CurrentSiteWwn>>
regVars == <<RequestSemaphoreMap, semHeld>>
vars == <<Urls, Url, DeviceId, Token, Client, SystemInfoRefreshing,
          ReLoginMutex, RequestSemaphore, CurrentLifWwn, CurrentSiteWwn,
          RequestSemaphoreMap, semHeld, stk, sess, scn, eval, crashed>>

(* ------------------------- values and helpers ------------------------- *)
RegistryKeys == {UninitializedStorage, DeviceOfArray, ""}

\* Response{} with a nil error
NoData == [kind |-> "none", deviceid |-> Absent, iBaseToken |-> Absent]
MapData == [kind |-> "map", deviceid |-> Absent, iBaseToken |-> Absent]
ListData == [kind |-> "list", deviceid |-> Absent, iBaseToken |-> Absent]
LoginData(d, t) == [kind |-> "map", deviceid |-> d, iBaseToken |-> t]
\* what came over the wire, kept with the result BaseCall made of it:
\* kind is "refused" (Client.Do failed to connect), "doOther" (Client.Do
\* failed otherwise), "readFail", "notJson", "json", or "none" for a result
\* that is not BaseCall's
\* tok is the token header of the request the reply answers
Wire(kind, code, data) == [kind |-> kind, code |-> code, data |-> data, tok |-> ""]
NoWire == Wire("none", CodeOK, NoData)
Res(err, code, data) == [err |-> err, code |-> code, data |-> data, wire |-> NoWire]
NilRes == Res("", CodeOK, NoData)
ErrRes(err) == Res(err, CodeOK, NoData)
\* no function of the configuration is being evaluated
NoEval == [fn |-> "none", arg |-> <<>>, out |-> <<>>, done |-> TRUE]
NoReq == [base |-> <<>>, dev |-> "", path |-> "", tok |-> ""]

Frame(fn, pc, method, url) ==
  [fn |-> fn, pc |-> pc, method |-> method, url |-> url, i |-> 0,
   res |-> NilRes, r |-> NilRes, req |-> NoReq, t |-> "", acq |-> 0, sem |-> 0,
   u0 |-> <<>>, g |-> <<>>, sink |-> 0]

Top(p) == stk[p][Len(stk[p])]
Below(p) == SubSeq(stk[p], 1, Len(stk[p]) - 1)
Running(p) == stk[p] # <<>> /\ ~crashed
At(p, fn, pc) == Running(p) /\ Top(p).fn = fn /\ Top(p).pc = pc
\* replace the top frame
SetTop(p, f) == stk' = [stk EXCEPT ![p] = Append(Below(p), f)]
\* replace the top frame by f and call: push the callee's frames fs
Push(p, f, fs) == stk' = [stk EXCEPT ![p] = Append(Below(p), f) \o fs]
\* return res to the caller: pop, hand res to the frame below
Return(p, res) ==
  stk' = [stk EXCEPT ![p] =
            IF Len(stk[p]) = 1 THEN <<>>
            ELSE Append(SubSeq(stk[p], 1, Len(stk[p]) - 2),
                        [stk[p][Len(stk[p]) - 1] EXCEPT !.res = res])]

IsSessionUrl(url) == url = LoginPath \/ url = LogoutPath
\* number of Call/SafeCall frames on a stack
CallDepth(st) == Cardinality({k \in 1..Len(st) : st[k].fn \in {"Call", "SafeCall"}})

(* ------------------------------ GetRequest ---------------------------- *)
\* the iBaseToken header of a request built now ("" = header absent)
TokenHeader(s) == IF Token[s] # "" THEN Token[s] ELSE ""
\* reqUrl = cli.Url [+ "/" + cli.DeviceId] + url, plus the headers
GetRequest(s, url) ==
  [base |-> Url[s], dev |-> DeviceId[s], path |-> url, tok |-> TokenHeader(s)]

(* ----------------------------- semaphores ----------------------------- *)
\* utils.Semaphore: Acquire blocks until a slot is free
CanAcquire(o) == semHeld[o] < MaxStorageThreads
SemAcquire(o) == [semHeld EXCEPT ![o] = @ + 1]
\* Release always succeeds and never blocks
SemRelease(h, o) == [h EXCEPT ![o] = IF @ > 0 THEN @ - 1 ELSE 0]

(* ------------------------------ the array ----------------------------- *)
\* what Client.Do and the body of the reply can be for a request; a scenario
\* without faults keeps the well-formed replies only
TransportReplies(faults) ==
  {Wire("refused", CodeOK, NoData)}
    \cup (IF faults
          THEN {Wire(k, CodeOK, NoData) : k \in {"doOther", "readFail", "notJson"}}
          ELSE {})
LoginReplies(faults) ==
  {Wire("json", OtherCode, NoData)}
    \cup {Wire("json", CodeOK, LoginData(DeviceOfArray, t)) : t \in Tokens}
    \cup (IF faults
          THEN {Wire("json", LockoutCode, NoData),
                Wire("json", CodeOK, LoginData(DeviceOfArray, Absent)),
                Wire("json", CodeOK, LoginData(Absent, Absent)),
                Wire("json", CodeOK, ListData)}
          ELSE {})
LogoutReplies(faults) ==
  {Wire("json", CodeOK, NoData)}
    \cup (IF faults
          THEN {Wire("json", OtherCode, NoData), Wire("json", NoCode, NoData)}
          ELSE {})
OtherReplies(mayExpire, faults) ==
  {Wire("json", CodeOK, MapData)}
    \cup (IF faults
          THEN {Wire("json", CodeOK, ListData), Wire("json", OtherCode, NoData)}
          ELSE {})
    \cup (IF mayExpire THEN {Wire("json", SessionExpired, NoData)} ELSE {})
ArrayReplies(url, mayExpire, faults) ==
  TransportReplies(faults) \cup
    (IF url = LoginPath THEN LoginReplies(faults)
     ELSE IF url = LogoutPath THEN LogoutReplies(faults)
     ELSE OtherReplies(mayExpire, faults))

\* a BaseCall that takes a body it cannot decode for a lost connection
ClassifyDecodeAsUnconnected(w) ==
  [(IF w.kind = "json" THEN Res("", w.code, w.data) ELSE ErrRes(Unconnected))
     EXCEPT !.wire = w]
\* part_000:356-378, client.go:288-314: the result BaseCall makes of what came
\* over the wire
Classify(w) ==
  [(IF w.kind \in {"refused", "doOther"} THEN ErrRes(Unconnected)
    ELSE IF w.kind = "readFail" THEN ErrRes("read")
    ELSE IF w.kind = "notJson" THEN ErrRes("decode")
    ELSE Res("", w.code, w.data))
     EXCEPT !.wire = w]

(* ---------------------- BaseCall and SafeBaseCall --------------------- *)
InBaseCall(p) == Running(p) /\ Top(p).fn \in {"BaseCall", "SafeBaseCall"}
EnterBaseCall(fn, method, url) == <<Frame(fn, "entry", method, url)>>
\* a BaseCall that builds every request without the session lock
BypassLockAlways(url) == TRUE
\* the login and logout paths build the request without the session lock
BypassLock(url) == IsSessionUrl(url)

\* a BaseCall that does not look at the transport before it goes on
BaseCallEntryNoNilCheck(p) ==
  /\ InBaseCall(p) /\ Top(p).pc = "entry"
  /\ LET s == sess[p]
         f == Top(p)
     IN IF BypassLock(f.url)
        THEN /\ SetTop(p, [f EXCEPT !.req = GetRequest(s, f.url), !.pc = "acquire"])
             /\ UNCHANGED ReLoginMutex
        ELSE /\ ReLoginMutex[s] = Free
             /\ ReLoginMutex' = [ReLoginMutex EXCEPT ![s] = p]
             /\ SetTop(p, [f EXCEPT !.pc = "build"])
  /\ UNCHANGED <<Urls, Url, DeviceId, Token, Client, SystemInfoRefreshing,
                 RequestSemaphore, CurrentLifWwn, CurrentSiteWwn, regVars,
                 sess, scn, eval, crashed>>

\* part_000:320-332, client.go:234-252: nil transport; lock or direct build
BaseCallEntry(p) ==
  /\ InBaseCall(p) /\ Top(p).pc = "entry"
  /\ LET s == sess[p]
         f == Top(p)
     IN IF ~Client[s]
        THEN /\ Return(p, ErrRes("http client is nil"))
             /\ UNCHANGED ReLoginMutex
        ELSE IF BypassLock(f.url)
        THEN /\ SetTop(p, [f EXCEPT !.req = GetRequest(s, f.url), !.pc = "acquire"])
             /\ UNCHANGED ReLoginMutex
        ELSE /\ ReLoginMutex[s] = Free
             /\ ReLoginMutex' = [ReLoginMutex EXCEPT ![s] = p]
             /\ SetTop(p, [f EXCEPT !.pc = "build"])
  /\ UNCHANGED <<Urls, Url, DeviceId, Token, Client, SystemInfoRefreshing,
                 RequestSemaphore, CurrentLifWwn, CurrentSiteWwn, regVars,
                 sess, scn, eval, crashed>>

\* a BaseCall that builds the request and keeps the session lock
BaseCallBuildKeepsLock(p) ==
  /\ InBaseCall(p) /\ Top(p).pc = "build"
  /\ SetTop(p, [Top(p) EXCEPT !.req = GetRequest(sess[p], Top(p).url), !.pc = "acquire"])
  /\ UNCHANGED <<sessVars, regVars, sess, scn, eval, crashed>>

\* part_000:327-329: GetRequest under the lock, then unlock
BaseCallBuild(p) ==
  /\ InBaseCall(p) /\ Top(p).pc = "build"
  /\ LET s == sess[p]
         f == Top(p)
     IN /\ SetTop(p, [f EXCEPT !.req = GetRequest(s, f.url), !.pc = "acquire"])
        /\ ReLoginMutex' = [ReLoginMutex EXCEPT ![s] = Free]
  /\ UNCHANGED <<Urls, Url, DeviceId, Token, Client, SystemInfoRefreshing,
                 RequestSemaphore, CurrentLifWwn, CurrentSiteWwn, regVars,
                 sess, scn, eval, crashed>>

\* a BaseCall that takes the client-level permit without waiting for a slot
BaseCallAcquireNoWait(p) ==
  /\ InBaseCall(p) /\ Top(p).pc = "acquire"
  /\ RequestSemaphore' = [RequestSemaphore EXCEPT ![sess[p]] = @ + 1]
  /\ SetTop(p, [Top(p) EXCEPT !.pc = "devCheck"])
  /\ UNCHANGED <<Urls, Url, DeviceId, Token, Client, SystemInfoRefreshing,
                 ReLoginMutex, CurrentLifWwn, CurrentSiteWwn, regVars,
                 sess, scn, eval, crashed>>

\* part_000:345, client.go:257-260: the client-level permit
BaseCallAcquire(p) ==
  /\ InBaseCall(p) /\ Top(p).pc = "acquire"
  /\ LET s == sess[p]
         f == Top(p)
     IN /\ RequestSemaphore[s] < ParallelCount
        /\ RequestSemaphore' = [RequestSemaphore EXCEPT ![s] = @ + 1]
        /\ SetTop(p, [f EXCEPT !.pc = "devCheck"])
  /\ UNCHANGED <<Urls, Url, DeviceId, Token, Client, SystemInfoRefreshing,
                 ReLoginMutex, CurrentLifWwn, CurrentSiteWwn, regVars,
                 sess, scn, eval, crashed>>

\* where a call goes when the registry has no semaphore for the device id:
\* BaseCall takes the default bucket, SafeBaseCall takes no device permit
NoDevicePermitPc(fn) == IF fn = "BaseCall" THEN "defAcq" ELSE "guard"
AfterPermitsPc(fn) == IF fn = "BaseCall" THEN "do" ELSE "guard"

\* part_000:348, client.go:262: RequestSemaphoreMap[cli.GetDeviceSN()] != nil
BaseCallDevCheck(p) ==
  /\ InBaseCall(p) /\ Top(p).pc = "devCheck"
  /\ LET s == sess[p]
         f == Top(p)
     IN SetTop(p, [f EXCEPT !.pc = IF RequestSemaphoreMap[DeviceId[s]] # 0
                                   THEN "devAcq"
                                   ELSE NoDevicePermitPc(f.fn)])
  /\ UNCHANGED <<sessVars, regVars, sess, scn, eval, crashed>>

\* part_000:349, client.go:263: RequestSemaphoreMap[cli.GetDeviceSN()].Acquire()
\* looks the device id and the registry up again
BaseCallDevAcquire(p) ==
  /\ InBaseCall(p) /\ Top(p).pc = "devAcq"
  /\ LET s == sess[p]
         f == Top(p)
         o == RequestSemaphoreMap[DeviceId[s]]
     IN IF o = 0
        THEN /\ crashed' = TRUE
             /\ UNCHANGED <<semHeld, stk>>
        ELSE /\ CanAcquire(o)
             /\ semHeld' = SemAcquire(o)
             /\ SetTop(p, [f EXCEPT !.acq = o, !.pc = "devDefer"])
             /\ UNCHANGED crashed
  /\ UNCHANGED <<sessVars, RequestSemaphoreMap, sess, scn, eval>>

\* part_000:350, client.go:264: defer RequestSemaphoreMap[cli.GetDeviceSN()].Release()
\* evaluates the receiver now, by a third lookup
BaseCallDevDefer(p) ==
  /\ InBaseCall(p) /\ Top(p).pc = "devDefer"
  /\ LET s == sess[p]
         f == Top(p)
     IN SetTop(p, [f EXCEPT !.sem = RequestSemaphoreMap[DeviceId[s]],
                            !.pc = AfterPermitsPc(f.fn)])
  /\ UNCHANGED <<sessVars, regVars, sess, scn, eval, crashed>>

\* part_000:352-353: the default bucket (BaseCall only)
BaseCallDefaultAcquire(p) ==
  /\ InBaseCall(p) /\ Top(p).pc = "defAcq"
  /\ LET f == Top(p)
         o == RequestSemaphoreMap[UninitializedStorage]
     IN /\ CanAcquire(o)
        /\ semHeld' = SemAcquire(o)
        /\ SetTop(p, [f EXCEPT !.acq = o, !.sem = o, !.pc = "do"])
  /\ UNCHANGED <<sessVars, RequestSemaphoreMap, sess, scn, eval, crashed>>

\* the deferred releases of a BaseCall frame, run when it returns
ReleasePermits(p) ==
  LET s == sess[p]
      f == Top(p)
  IN /\ RequestSemaphore' = [RequestSemaphore EXCEPT ![s] = IF @ > 0 THEN @ - 1 ELSE 0]
     /\ semHeld' = IF f.acq = 0 THEN semHeld ELSE SemRelease(semHeld, f.sem)
\* the deferred Release was taken from a nil registry entry
NilRelease(p) == Top(p).acq # 0 /\ Top(p).sem = 0

\* a guard that does not look at the refreshing flag
safeDoCallGuardNoFlag(url, lif, site, refreshing) ==
  IF ~IsSessionUrl(url) /\ lif # "" /\ lif # site THEN "stale" ELSE "send"
\* a guard that does not compare the two identities
safeDoCallGuardNoSite(url, lif, site, refreshing) ==
  IF ~IsSessionUrl(url) /\ lif # "" /\ refreshing = 1 THEN "refreshing" ELSE "send"
\* client.go:274-286: the site guard of safeDoCall
safeDoCallGuard(url, lif, site, refreshing) ==
  IF ~IsSessionUrl(url) /\ lif # ""
  THEN IF refreshing = 1 THEN "refreshing"
       ELSE IF lif # site THEN "stale"
       ELSE "send"
  ELSE "send"

SafeDoCallGuard(p) ==
  /\ InBaseCall(p) /\ Top(p).pc = "guard"
  /\ LET s == sess[p]
         f == Top(p)
         v == safeDoCallGuard(f.url, CurrentLifWwn[s], CurrentSiteWwn[s],
                              SystemInfoRefreshing[s])
     IN IF v = "send"
        THEN /\ SetTop(p, [f EXCEPT !.pc = "do"])
             /\ UNCHANGED <<RequestSemaphore, semHeld, crashed>>
        ELSE IF NilRelease(p)
        THEN /\ crashed' = TRUE
             /\ UNCHANGED <<RequestSemaphore, semHeld, stk>>
        ELSE /\ ReleasePermits(p)
             /\ Return(p, ErrRes(v))
             /\ UNCHANGED crashed
  /\ UNCHANGED <<Urls, Url, DeviceId, Token, Client, SystemInfoRefreshing,
                 ReLoginMutex, CurrentLifWwn, CurrentSiteWwn,
                 RequestSemaphoreMap, sess, scn, eval>>

\* part_000:356-378, client.go:288-314: the network exchange and its decoding,
\* then the deferred releases
BaseCallDo(p) ==
  /\ InBaseCall(p) /\ Top(p).pc = "do"
  /\ \E reply \in ArrayReplies(Top(p).url, CallDepth(stk[p]) <= scn.cap, scn.faults) :
       IF NilRelease(p)
       THEN /\ crashed' = TRUE
            /\ UNCHANGED <<RequestSemaphore, semHeld, stk>>
       ELSE /\ ReleasePermits(p)
            /\ Return(p, Classify([reply EXCEPT !.tok = Top(p).req.tok]))
            /\ UNCHANGED crashed
  /\ UNCHANGED <<Urls, Url, DeviceId, Token, Client, SystemInfoRefreshing,
                 ReLoginMutex, CurrentLifWwn, CurrentSiteWwn,
                 RequestSemaphoreMap, sess, scn, eval>>

(* ------------------- entering the composite functions ----------------- *)
BaseFn(fn) == IF fn = "SafeCall" THEN "SafeBaseCall" ELSE "BaseCall"
\* Call / SafeCall start with their first BaseCall (i counts the BaseCalls)
EnterCall(fn, method, url) ==
  <<[Frame(fn, "got", method, url) EXCEPT !.i = 1]>> \o
    EnterBaseCall(BaseFn(fn), method, url)
\* part_000:577: Logout starts with the DELETE /sessions call
EnterLogout ==
  <<Frame("Logout", "got", "DELETE", LogoutPath)>> \o
    EnterBaseCall("BaseCall", "DELETE", LogoutPath)
\* part_000:594: ReLogin reads the token before it takes the lock
EnterReLogin(s) == <<[Frame("ReLogin", "lock", "", "") EXCEPT !.t = Token[s]]>>
EnterLogin == <<Frame("Login", "start", "POST", LoginPath)>>
\* part_000:292,298,632: SetSystemInfo -> GetSystem -> Get -> Call; the caller
\* of EnterSetSystemInfo also stores SystemInfoRefreshing = 1
EnterSetSystemInfo ==
  <<Frame("SetSystemInfo", "got", "GET", SystemPath)>> \o
    EnterCall("Call", "GET", SystemPath)

(* ---------------------------- Call, SafeCall -------------------------- *)
InCall(p) == Running(p) /\ Top(p).fn \in {"Call", "SafeCall"}

\* NeedReLogin: the reply carries the session-expired business code
NeedReLogin(res) == res.err = "" /\ res.code = SessionExpired

\* a Call that goes on after a transport failure as after an expired session
CallResendOnUnconnected(i, res) == i = 1 /\ (NeedReLogin(res) \/ res.err = Unconnected)
\* a Call that looks at every BaseCall's result
CallResendAlways(i, res) == NeedReLogin(res)
\* a Call that goes on after a rejection by the site guard as after an
\* expired session
CallResendOnSiteFailure(i, res) ==
  i = 1 /\ (NeedReLogin(res) \/ res.err \in {"refreshing", "stale"})
\* part_000:268-271,285: only the first BaseCall's result is looked at
CallResend(i, res) == i = 1 /\ NeedReLogin(res)

\* part_000:268-276, client.go:204-212
CallGot(p) ==
  /\ InCall(p) /\ Top(p).pc = "got"
  /\ LET s == sess[p]
         f == Top(p)
     IN IF CallResend(f.i, f.res)
        THEN Push(p, [f EXCEPT !.pc = "relogin", !.r = f.res, !.g = Append(f.g, f.res)],
                  EnterReLogin(s))
        ELSE SetTop(p, [f EXCEPT !.pc = "ret", !.g = Append(f.g, f.res)])
  /\ UNCHANGED <<sessVars, regVars, sess, scn, eval, crashed>>

\* part_000:270,278,282,285: Call hands its result to the caller
CallRet(p) ==
  /\ InCall(p) /\ Top(p).pc = "ret"
  /\ Return(p, Top(p).res)
  /\ UNCHANGED <<sessVars, regVars, sess, scn, eval, crashed>>

\* a Call that drops the error of ReLogin or SetSystemInfo
CallFailureSwallowed(fn, first, err, wrap) == Res("", first.code, first.data)
\* what Call / SafeCall return when ReLogin or SetSystemInfo failed
CallFailure(fn, first, err, wrap) ==
  IF fn = "Call" THEN ErrRes(IF wrap THEN "after relogin, can't get system info" ELSE err)
  ELSE Res(err, first.code, first.data)

\* part_000:276-281, client.go:212-218
CallReLogin(p) ==
  /\ InCall(p) /\ Top(p).pc = "relogin"
  /\ LET s == sess[p]
         f == Top(p)
     IN IF f.res.err # ""
        THEN /\ SetTop(p, [f EXCEPT !.pc = "ret", !.g = Append(f.g, f.res),
                                    !.res = CallFailure(f.fn, f.r, f.res.err, FALSE)])
             /\ UNCHANGED SystemInfoRefreshing
        ELSE /\ Push(p, [f EXCEPT !.pc = "sysinfo", !.g = Append(f.g, f.res)],
                     EnterSetSystemInfo)
             /\ SystemInfoRefreshing' = [SystemInfoRefreshing EXCEPT ![s] = 1]
  /\ UNCHANGED <<Urls, Url, DeviceId, Token, Client, ReLoginMutex,
                 RequestSemaphore, CurrentLifWwn, CurrentSiteWwn, regVars,
                 sess, scn, eval, crashed>>

\* part_000:281-285, client.go:218-223
CallSysInfo(p) ==
  /\ InCall(p) /\ Top(p).pc = "sysinfo"
  /\ LET f == Top(p)
     IN IF f.res.err # ""
        THEN SetTop(p, [f EXCEPT !.pc = "ret", !.g = Append(f.g, f.res),
                               !.res = CallFailure(f.fn, f.r, f.res.err, TRUE)])
        ELSE Push(p, [f EXCEPT !.pc = "got", !.i = f.i + 1, !.g = Append(f.g, f.res)],
                  EnterBaseCall(BaseFn(f.fn), f.method, f.url))
  /\ UNCHANGED <<sessVars, regVars, sess, scn, eval, crashed>>

(* ---------------------- SetSystemInfo, GetSystem ---------------------- *)
\* part_000:631-652: GetSystem's error for the reply of Get("/system/")
GetSystemErr(res) ==
  IF res.err # "" THEN res.err
  ELSE IF res.code # CodeOK THEN "get system info failed"
  ELSE IF res.data.kind # "map" THEN "convert respData to map failed"
  ELSE ""

\* the site identity a successful refresh records
UpdateSite(site, s, w) == [site EXCEPT ![s] = w]

\* a SetSystemInfo that resets the flag after a successful query only
SetSystemInfoGotNoDefer(p) ==
  /\ Running(p) /\ Top(p).fn = "SetSystemInfo" /\ Top(p).pc = "got"
  /\ LET s == sess[p]
         f == Top(p)
         err == GetSystemErr(f.res)
     IN /\ IF err # ""
           THEN UNCHANGED <<CurrentSiteWwn, SystemInfoRefreshing>>
           ELSE /\ SystemInfoRefreshing' = [SystemInfoRefreshing EXCEPT ![s] = 0]
                /\ \E w \in scn.sites : CurrentSiteWwn' = UpdateSite(CurrentSiteWwn, s, w)
        /\ Return(p, ErrRes(err))
  /\ UNCHANGED <<Urls, Url, DeviceId, Token, Client, ReLoginMutex,
                 RequestSemaphore, CurrentLifWwn, regVars, sess, scn, eval, crashed>>
\* part_000:293-310: the deferred reset of the flag, and the result
SetSystemInfoGot(p) ==
  /\ Running(p) /\ Top(p).fn = "SetSystemInfo" /\ Top(p).pc = "got"
  /\ LET s == sess[p]
         f == Top(p)
         err == GetSystemErr(f.res)
     IN /\ SystemInfoRefreshing' = [SystemInfoRefreshing EXCEPT ![s] = 0]
        /\ IF err # ""
           THEN UNCHANGED CurrentSiteWwn
           ELSE \E w \in scn.sites : CurrentSiteWwn' = UpdateSite(CurrentSiteWwn, s, w)
        /\ Return(p, ErrRes(err))
  /\ UNCHANGED <<Urls, Url, DeviceId, Token, Client, ReLoginMutex,
                 RequestSemaphore, CurrentLifWwn, regVars, sess, scn, eval, crashed>>

(* -------------------------------- Logout ------------------------------ *)
\* part_000:583: resp.Error["code"].(float64), an unchecked type assertion
CodeAsserts(res) == res.code # NoCode

\* a Logout that clears the token when it returns
LogoutGotClearsToken(p) ==
  /\ Running(p) /\ Top(p).fn = "Logout" /\ Top(p).pc = "got"
  /\ IF Top(p).res.err = "" /\ ~CodeAsserts(Top(p).res)
     THEN crashed' = TRUE /\ UNCHANGED <<stk, Token>>
     ELSE /\ Return(p, NilRes)
          /\ Token' = [Token EXCEPT ![sess[p]] = ""]
          /\ UNCHANGED crashed
  /\ UNCHANGED <<Urls, Url, DeviceId, Client, SystemInfoRefreshing, ReLoginMutex,
                 RequestSemaphore, CurrentLifWwn, CurrentSiteWwn, regVars,
                 sess, scn, eval>>
\* part_000:576-590: a BaseCall error or any numeric code is logged and Logout
\* returns nothing; a reply without a numeric code panics
LogoutGot(p) ==
  /\ Running(p) /\ Top(p).fn = "Logout" /\ Top(p).pc = "got"
  /\ IF Top(p).res.err = "" /\ ~CodeAsserts(Top(p).res)
     THEN crashed' = TRUE /\ UNCHANGED stk
     ELSE Return(p, NilRes) /\ UNCHANGED crashed
  /\ UNCHANGED <<sessVars, regVars, sess, scn, eval>>

(* ------------------------------- ReLogin ------------------------------ *)
\* a ReLogin without the comparison of the tokens
AlreadyReLoggedNever(token, oldToken) == FALSE
\* part_000:599: another caller has already renewed the session
AlreadyReLogged(token, oldToken) == token # "" /\ oldToken # token

\* a ReLogin that does not wait for the lock
ReLoginLockNoWait(p) ==
  /\ Running(p) /\ Top(p).fn = "ReLogin" /\ Top(p).pc = "lock"
  /\ LET s == sess[p]
         f == [Top(p) EXCEPT !.g = <<Token[s]>>]
     IN /\ ReLoginMutex' = [ReLoginMutex EXCEPT ![s] = p]
        /\ IF AlreadyReLogged(Token[s], f.t)
           THEN SetTop(p, [f EXCEPT !.pc = "ret", !.res = NilRes])
           ELSE IF Token[s] # ""
           THEN Push(p, [f EXCEPT !.pc = "login"], EnterLogout)
           ELSE Push(p, [f EXCEPT !.pc = "ret"], EnterLogin)
  /\ UNCHANGED <<Urls, Url, DeviceId, Token, Client, SystemInfoRefreshing,
                 RequestSemaphore, CurrentLifWwn, CurrentSiteWwn, regVars,
                 sess, scn, eval, crashed>>
\* a ReLogin that logs in without logging out first
ReLoginLockNoLogout(p) ==
  /\ Running(p) /\ Top(p).fn = "ReLogin" /\ Top(p).pc = "lock"
  /\ LET s == sess[p]
         f == [Top(p) EXCEPT !.g = <<Token[s]>>]
     IN /\ ReLoginMutex[s] = Free
        /\ ReLoginMutex' = [ReLoginMutex EXCEPT ![s] = p]
        /\ IF AlreadyReLogged(Token[s], f.t)
           THEN SetTop(p, [f EXCEPT !.pc = "ret", !.res = NilRes])
           ELSE Push(p, [f EXCEPT !.pc = "ret"], EnterLogin)
  /\ UNCHANGED <<Urls, Url, DeviceId, Token, Client, SystemInfoRefreshing,
                 RequestSemaphore, CurrentLifWwn, CurrentSiteWwn, regVars,
                 sess, scn, eval, crashed>>
\* part_000:596-606: lock, then shortcut, or Logout first, or Login directly
ReLoginLock(p) ==
  /\ Running(p) /\ Top(p).fn = "ReLogin" /\ Top(p).pc = "lock"
  /\ LET s == sess[p]
         f == [Top(p) EXCEPT !.g = <<Token[s]>>]
     IN /\ ReLoginMutex[s] = Free
        /\ ReLoginMutex' = [ReLoginMutex EXCEPT ![s] = p]
        /\ IF AlreadyReLogged(Token[s], f.t)
           THEN SetTop(p, [f EXCEPT !.pc = "ret", !.res = NilRes])
           ELSE IF Token[s] # ""
           THEN Push(p, [f EXCEPT !.pc = "login"], EnterLogout)
           ELSE Push(p, [f EXCEPT !.pc = "ret"], EnterLogin)
  /\ UNCHANGED <<Urls, Url, DeviceId, Token, Client, SystemInfoRefreshing,
                 RequestSemaphore, CurrentLifWwn, CurrentSiteWwn, regVars,
                 sess, scn, eval, crashed>>

\* part_000:606: Login after the Logout (i counts the Logouts that returned)
ReLoginLogin(p) ==
  /\ Running(p) /\ Top(p).fn = "ReLogin" /\ Top(p).pc = "login"
  /\ Push(p, [Top(p) EXCEPT !.pc = "ret", !.i = 1], EnterLogin)
  /\ UNCHANGED <<sessVars, regVars, sess, scn, eval, crashed>>

\* part_000:597,607-612: the deferred unlock, and Login's error or nil
ReLoginRet(p) ==
  /\ Running(p) /\ Top(p).fn = "ReLogin" /\ Top(p).pc = "ret"
  /\ ReLoginMutex' = [ReLoginMutex EXCEPT ![sess[p]] = Free]
  /\ Return(p, ErrRes(Top(p).res.err))
  /\ UNCHANGED <<Urls, Url, DeviceId, Token, Client, SystemInfoRefreshing,
                 RequestSemaphore, CurrentLifWwn, CurrentSiteWwn, regVars,
                 sess, scn, eval, crashed>>

(* ----------------- Login, loginCall, ValidateLogin -------------------- *)
InLogin(p) == Running(p) /\ Top(p).fn \in {"Login", "ValidateLogin"}

\* a Login that keeps the old token while it logs in
KeepToken(tok, s) == tok
\* part_000:459, 672: cli.Token = ""
ClearToken(tok, s) == [tok EXCEPT ![s] = ""]

\* part_000:449-459: transport and credentials, then the session is cleared
LoginStart(p) ==
  /\ Running(p) /\ Top(p).fn = "Login" /\ Top(p).pc = "start"
  /\ LET s == sess[p]
         f == Top(p)
     IN \/ /\ scn.clientFail
           /\ Client' = [Client EXCEPT ![s] = FALSE]
           /\ Return(p, ErrRes("new http client failed"))
           /\ UNCHANGED <<DeviceId, Token>>
        \/ /\ Client' = [Client EXCEPT ![s] = TRUE]
           /\ Return(p, ErrRes("get request params failed"))
           /\ UNCHANGED <<DeviceId, Token>>
        \/ /\ Client' = [Client EXCEPT ![s] = TRUE]
           /\ DeviceId' = [DeviceId EXCEPT ![s] = ""]
           /\ Token' = ClearToken(Token, s)
           /\ SetTop(p, [f EXCEPT !.pc = "loop", !.i = 1, !.u0 = Urls[s]])
  /\ UNCHANGED <<Urls, Url, SystemInfoRefreshing, ReLoginMutex, RequestSemaphore,
                 CurrentLifWwn, CurrentSiteWwn, regVars, sess, scn, eval, crashed>>

\* part_000:659-672
ValidateLoginStart(p) ==
  /\ Running(p) /\ Top(p).fn = "ValidateLogin" /\ Top(p).pc = "start"
  /\ LET s == sess[p]
         f == Top(p)
     IN \/ /\ Return(p, ErrRes("get auth info failed"))
           /\ UNCHANGED <<DeviceId, Token>>
        \/ /\ DeviceId' = [DeviceId EXCEPT ![s] = ""]
           /\ Token' = ClearToken(Token, s)
           /\ SetTop(p, [f EXCEPT !.pc = "loop", !.i = 1, !.u0 = Urls[s]])
  /\ UNCHANGED <<Urls, Url, Client, SystemInfoRefreshing, ReLoginMutex,
                 RequestSemaphore, CurrentLifWwn, CurrentSiteWwn, regVars,
                 sess, scn, eval, crashed>>

\* part_000:494-498, 673-676: the next candidate becomes cli.Url and is tried
LoginLoop(p) ==
  /\ InLogin(p) /\ Top(p).pc = "loop"
  /\ LET s == sess[p]
         f == Top(p)
     IN /\ Url' = [Url EXCEPT ![s] = <<Urls[s][f.i], RestSuffix>>]
        /\ Push(p, [f EXCEPT !.pc = "got", !.t = Urls[s][f.i]],
                EnterBaseCall("BaseCall", "POST", LoginPath))
  /\ UNCHANGED <<Urls, DeviceId, Token, Client, SystemInfoRefreshing, ReLoginMutex,
                 RequestSemaphore, CurrentLifWwn, CurrentSiteWwn, regVars,
                 sess, scn, eval, crashed>>

\* a loop that goes on to the next address after any error
loginCallNextAny(err) == IF err = "" THEN "success" ELSE "next"
\* part_000:499-509: what the loop does with the error of one attempt
loginCallNext(err) ==
  IF err = "" THEN "success"
  ELSE IF err # Unconnected THEN "break"
  ELSE "next"

\* a login that copies the succeeded address over the last one
SwapLastOverwrites(urls, i) == [urls EXCEPT ![Len(urls)] = urls[i]]
\* a login that leaves the list as it was
SwapLastForgotten(urls, i) == urls
\* part_000:502: cli.Urls[i], cli.Urls[len-1] = cli.Urls[len-1], cli.Urls[i]
SwapLast(urls, i) ==
  [k \in 1..Len(urls) |->
     IF k = i THEN urls[Len(urls)]
     ELSE IF k = Len(urls) THEN urls[i]
     ELSE urls[k]]

\* part_000:499-510, 677-688
LoginGot(p) ==
  /\ InLogin(p) /\ Top(p).pc = "got"
  /\ LET s == sess[p]
         f == Top(p)
         v == loginCallNext(f.res.err)
         g == Append(f.g, [url |-> f.t, err |-> f.res.err])
     IN IF v = "success"
        THEN /\ Urls' = [Urls EXCEPT ![s] = SwapLast(Urls[s], f.i)]
             /\ SetTop(p, [f EXCEPT !.pc = "resp", !.g = g])
        ELSE IF v = "next" /\ f.i < Len(f.u0)
        THEN /\ SetTop(p, [f EXCEPT !.pc = "loop", !.i = f.i + 1, !.g = g])
             /\ UNCHANGED Urls
        ELSE /\ SetTop(p, [f EXCEPT !.pc = "resp", !.g = g])
             /\ UNCHANGED Urls
  /\ UNCHANGED <<Url, DeviceId, Token, Client, SystemInfoRefreshing, ReLoginMutex,
                 RequestSemaphore, CurrentLifWwn, CurrentSiteWwn, regVars,
                 sess, scn, eval, crashed>>

\* a Login that reports every rejection to the backend-status sink
SinkCallsAlways(code) == 1
\* part_000:469-471: SetStorageBackendContentOnlineStatus(ctx, BackendID, false)
\* is called for the codes of a lockout class only
SinkCalls(code) == IF code = LockoutCode THEN 1 ELSE 0
\* part_000:468-476: the message of the error Login returns for a rejection
RejectionMsg(code, sinkOk) ==
  IF SinkCalls(code) > 0 /\ ~sinkOk
  THEN "login error, setStorageBackendContentOffline failed"
  ELSE "login error"

\* part_000:462-479, 540-552: errors, then the device id and the registry check
LoginResp(p) ==
  /\ Running(p) /\ Top(p).fn = "Login" /\ Top(p).pc = "resp"
  /\ LET s == sess[p]
         f == Top(p)
     IN IF f.res.err # ""
        THEN /\ Return(p, ErrRes("request storage failed while login"))
             /\ UNCHANGED DeviceId
        ELSE IF f.res.code # CodeOK
        THEN /\ \E sinkOk \in BOOLEAN :
                  SetTop(p, [f EXCEPT !.pc = "rejected",
                                      !.sink = SinkCalls(f.res.code),
                                      !.r = ErrRes(RejectionMsg(f.res.code, sinkOk))])
             /\ UNCHANGED DeviceId
        ELSE IF f.res.data.kind # "map"
        THEN /\ Push(p, [f EXCEPT !.pc = "failed"], EnterLogout)
             /\ UNCHANGED DeviceId
        ELSE IF f.res.data.deviceid = Absent
        THEN /\ DeviceId' = [DeviceId EXCEPT ![s] = ""]
             /\ Push(p, [f EXCEPT !.pc = "failed"], EnterLogout)
        ELSE /\ DeviceId' = [DeviceId EXCEPT ![s] = f.res.data.deviceid]
             /\ SetTop(p, [f EXCEPT !.pc = "store",
                                    !.sem = RequestSemaphoreMap[f.res.data.deviceid]])
  /\ UNCHANGED <<Urls, Url, Token, Client, SystemInfoRefreshing, ReLoginMutex,
                 RequestSemaphore, CurrentLifWwn, CurrentSiteWwn, regVars,
                 sess, scn, eval, crashed>>

\* part_000:476: Login returns the rejection
LoginRejected(p) ==
  /\ Running(p) /\ Top(p).fn = "Login" /\ Top(p).pc = "rejected"
  /\ Return(p, Top(p).r)
  /\ UNCHANGED <<sessVars, regVars, sess, scn, eval, crashed>>

\* the logical-interface identity recorded by a successful login
RecordLif(lif, s, w) == [lif EXCEPT ![s] = w]

\* part_000:550-572: the registry store when the entry was seen nil, the token
LoginStore(p) ==
  /\ Running(p) /\ Top(p).fn = "Login" /\ Top(p).pc = "store"
  /\ LET s == sess[p]
         f == Top(p)
     IN /\ IF f.sem = 0
           THEN /\ semHeld' = Append(semHeld, 0)
                /\ RequestSemaphoreMap' =
                     [RequestSemaphoreMap EXCEPT ![DeviceId[s]] = Len(semHeld) + 1]
           ELSE UNCHANGED regVars
        /\ IF f.res.data.iBaseToken = Absent
           THEN /\ Token' = [Token EXCEPT ![s] = ""]
                /\ Push(p, [f EXCEPT !.pc = "failed"], EnterLogout)
                /\ UNCHANGED CurrentLifWwn
           ELSE /\ Token' = [Token EXCEPT ![s] = f.res.data.iBaseToken]
                /\ \E w \in scn.lifs : CurrentLifWwn' = RecordLif(CurrentLifWwn, s, w)
                /\ Return(p, NilRes)
  /\ UNCHANGED <<Urls, Url, DeviceId, Client, SystemInfoRefreshing, ReLoginMutex,
                 RequestSemaphore, CurrentSiteWwn, sess, scn, eval, crashed>>

\* part_000:480-486: after the Logout of a login whose payload was unusable
LoginFailed(p) ==
  /\ Running(p) /\ Top(p).fn = "Login" /\ Top(p).pc = "failed"
  /\ Return(p, ErrRes("login response data error"))
  /\ UNCHANGED <<sessVars, regVars, sess, scn, eval, crashed>>

\* the zero value GetValue leaves when the key is missing
OrEmpty(v) == IF v = Absent THEN "" ELSE v

\* part_000:690-706, 709-725
ValidateLoginResp(p) ==
  /\ Running(p) /\ Top(p).fn = "ValidateLogin" /\ Top(p).pc = "resp"
  /\ LET s == sess[p]
         f == Top(p)
     IN IF f.res.err # ""
        THEN /\ Return(p, ErrRes(f.res.err))
             /\ UNCHANGED <<DeviceId, Token>>
        ELSE IF f.res.code # CodeOK
        THEN /\ Return(p, ErrRes("validate login failed"))
             /\ UNCHANGED <<DeviceId, Token>>
        ELSE /\ DeviceId' = [DeviceId EXCEPT ![s] = OrEmpty(f.res.data.deviceid)]
             /\ Token' = [Token EXCEPT ![s] = OrEmpty(f.res.data.iBaseToken)]
             /\ Return(p, NilRes)
  /\ UNCHANGED <<Urls, Url, Client, SystemInfoRefreshing, ReLoginMutex,
                 RequestSemaphore, CurrentLifWwn, CurrentSiteWwn, regVars,
                 sess, scn, eval, crashed>>

(* ------------------------- the callers' operations -------------------- *)
Idle(p) == stk[p] = <<>> /\ ~crashed /\ sess[p] # NoSession
Peers(p) == {q \in Procs \ {p} : sess[q] = sess[p]}
\* Login and ValidateLogin are invoked on a client no other goroutine uses
\* (values.yaml:457-462, 827-828)
Exclusive(p) == \A q \in Peers(p) : stk[q] = <<>>
NoBareLogin(p) ==
  \A q \in Peers(p) :
    IF Len(stk[q]) = 0 THEN TRUE ELSE stk[q][1].fn \notin {"Login", "ValidateLogin"}
Begin(p, fs) ==
  /\ stk' = [stk EXCEPT ![p] = fs]
  /\ UNCHANGED <<regVars, sess, scn, eval, crashed>>

StartLogin(p) ==
  /\ Idle(p) /\ Exclusive(p)
  /\ Begin(p, EnterLogin)
  /\ UNCHANGED sessVars

StartValidateLogin(p) ==
  /\ Idle(p) /\ Exclusive(p)
  /\ Begin(p, <<Frame("ValidateLogin", "start", "POST", LoginPath)>>)
  /\ UNCHANGED sessVars

StartLogout(p) ==
  /\ Idle(p) /\ NoBareLogin(p)
  /\ Begin(p, EnterLogout)
  /\ UNCHANGED sessVars

StartReLogin(p) ==
  /\ Idle(p) /\ NoBareLogin(p)
  /\ Begin(p, EnterReLogin(sess[p]))
  /\ UNCHANGED sessVars

StartCall(p) ==
  /\ Idle(p) /\ NoBareLogin(p)
  /\ \E fn \in scn.fns : Begin(p, EnterCall(fn, "GET", LunPath))
  /\ UNCHANGED sessVars

StartSetSystemInfo(p) ==
  /\ Idle(p) /\ NoBareLogin(p)
  /\ Begin(p, EnterSetSystemInfo)
  /\ SystemInfoRefreshing' = [SystemInfoRefreshing EXCEPT ![sess[p]] = 1]
  /\ UNCHANGED <<Urls, Url, DeviceId, Token, Client, ReLoginMutex,
                 RequestSemaphore, CurrentLifWwn, CurrentSiteWwn>>

(* --------------------------- specifications --------------------------- *)
\* the state after construction (NewRestClient / NewClient) of the sessions
\* in use; assign gives every process its session, n the number of addresses
Constructed(assign, n, cap) ==
  /\ Urls = [s \in Sessions |-> SubSeq(UrlNames, 1, n)]
  /\ Url = [s \in Sessions |-> <<>>]
  /\ DeviceId = [s \in Sessions |-> ""]
  /\ Token = [s \in Sessions |-> ""]
  /\ Client = [s \in Sessions |-> TRUE]
  /\ SystemInfoRefreshing = [s \in Sessions |-> 0]
  /\ ReLoginMutex = [s \in Sessions |-> Free]
  /\ RequestSemaphore = [s \in Sessions |-> 0]
  /\ CurrentLifWwn = [s \in Sessions |-> ""]
  /\ CurrentSiteWwn = [s \in Sessions |-> ""]
  /\ RequestSemaphoreMap = [k \in RegistryKeys |-> IF k = UninitializedStorage THEN 1 ELSE 0]
  /\ semHeld = <<0>>
  /\ stk = [p \in Procs |-> <<>>]
  /\ sess = assign
  /\ scn = cap
  /\ crashed = FALSE
\* the sessions as constructed, no function being evaluated
InitWith(assign, n, cap) == Constructed(assign, n, cap) /\ eval = NoEval

\* steps of BaseCall / SafeBaseCall
BaseCallStep(p) ==
  \/ BaseCallEntry(p) \/ BaseCallBuild(p) \/ BaseCallAcquire(p)
  \/ BaseCallDevCheck(p) \/ BaseCallDevAcquire(p) \/ BaseCallDevDefer(p)
  \/ BaseCallDo(p)
\* steps of Call / SafeCall on a session that has not expired, of
\* SetSystemInfo, Logout, ReLogin and Login
SessionStep(p) ==
  \/ CallGot(p) \/ CallRet(p) \/ SetSystemInfoGot(p) \/ LogoutGot(p)
  \/ ReLoginLock(p) \/ ReLoginLogin(p) \/ ReLoginRet(p)
  \/ LoginStart(p) \/ LoginLoop(p) \/ LoginGot(p) \/ LoginResp(p) \/ LoginStore(p)
  \/ LoginRejected(p)

Step(p) ==
  \/ StartLogin(p) \/ StartValidateLogin(p) \/ StartLogout(p)
  \/ StartReLogin(p) \/ StartCall(p) \/ StartSetSystemInfo(p)
  \/ BaseCallStep(p) \/ BaseCallDefaultAcquire(p) \/ SafeDoCallGuard(p)
  \/ SessionStep(p) \/ CallReLogin(p) \/ CallSysInfo(p) \/ LoginFailed(p)
  \/ ValidateLoginStart(p) \/ ValidateLoginResp(p)

Scenario(cap, lifs, sites, clientFail, faults, fns) ==
  [cap |-> cap, lifs |-> lifs, sites |-> sites, clientFail |-> clientFail,
   faults |-> faults, fns |-> fns]

\* one goroutine, one session, every length of the address list, every
\* operation and every reply of the array
NextSeq == \E p \in Procs : Step(p)
InitSeq ==
  \E n \in 1..MaxUrls :
    InitWith([p \in Procs |-> IF p = "p1" THEN "s1" ELSE NoSession], n,
             Scenario(MaxDepth, {""}, {"w1"}, TRUE, TRUE, {"Call", "SafeCall"}))
SpecSeq == InitSeq /\ [][NextSeq]_vars

\* two goroutines share one session with one address; the array answers
\* with well-formed replies and never reports an expired session
Next ==
  \E p \in Procs :
    \/ StartReLogin(p) \/ StartCall(p) \/ StartSetSystemInfo(p)
    \/ BaseCallStep(p) \/ SafeDoCallGuard(p) \/ BaseCallDefaultAcquire(p)
    \/ SessionStep(p)
Init ==
  InitWith([p \in Procs |-> "s1"], 1,
           Scenario(0, {"w1"}, {"w1", "w2"}, FALSE, FALSE, {"SafeCall"}))
Spec == Init /\ [][Next]_vars

\* the same two goroutines under fair scheduling: a goroutine inside a call
\* that can take a step takes one (the Go scheduler, and every network
\* exchange returns), and a goroutine that waits for ReLoginMutex or for a
\* semaphore gets it if it is free again and again (sync.Mutex hands the lock
\* to a starving waiter; the senders blocked on a channel are served in order)
Proceed(p) ==
  BaseCallStep(p) \/ SafeDoCallGuard(p) \/ BaseCallDefaultAcquire(p) \/ SessionStep(p)
Fairness ==
  \A p \in Procs :
    /\ WF_vars(Proceed(p))
    /\ SF_vars(BaseCallEntry(p)) /\ SF_vars(ReLoginLock(p))
    /\ SF_vars(BaseCallAcquire(p)) /\ SF_vars(BaseCallDevAcquire(p))
    /\ SF_vars(BaseCallDefaultAcquire(p))
SpecFair == Spec /\ Fairness

\* two sessions of the same device, one goroutine each: first logins and
\* calls race on the registry of device-level semaphores
NextReg ==
  \E p \in Procs :
    \/ StartLogin(p) \/ StartCall(p)
    \/ BaseCallStep(p) \/ BaseCallDefaultAcquire(p)
    \/ CallGot(p) \/ CallRet(p)
    \/ LoginStart(p) \/ LoginLoop(p) \/ LoginGot(p) \/ LoginResp(p) \/ LoginStore(p)
    \/ LoginRejected(p)
InitReg ==
  InitWith([p \in Procs |-> IF p = "p1" THEN "s1" ELSE "s2"], 1,
           Scenario(0, {""}, {"w1"}, FALSE, FALSE, {"Call"}))
SpecReg == InitReg /\ [][NextReg]_vars

(* --------------------------- DuplicateClient -------------------------- *)
\* client.go:156,325: dup := *cli copies the embedded *RestClient pointer, so
\* the RestClient of the duplicate is the RestClient of the original
DupRestClient(s) == s

\* client.go:324-333: goroutine p duplicates its client and hands the
\* duplicate to q; dup.Urls and dup.Client are fields of dup's RestClient
DuplicateClient(p, q) ==
  /\ Idle(p) /\ p # q /\ sess[q] = NoSession
  /\ LET d == DupRestClient(sess[p])
     IN /\ sess' = [sess EXCEPT ![q] = d]
        /\ Urls' = [Urls EXCEPT ![d] = Urls[sess[p]]]
        /\ Client' = [Client EXCEPT ![d] = FALSE]
  /\ UNCHANGED <<Url, DeviceId, Token, SystemInfoRefreshing, ReLoginMutex,
                 RequestSemaphore, CurrentLifWwn, CurrentSiteWwn, regVars,
                 stk, scn, eval, crashed>>

\* one client and, once made, its duplicate: logins and calls on both
NextDup ==
  \/ NextReg
  \/ \E p, q \in Procs : DuplicateClient(p, q)
InitDup ==
  \E n \in 1..MaxUrls :
    InitWith([p \in Procs |-> IF p = "p1" THEN "s1" ELSE NoSession], n,
             Scenario(0, {""}, {"w1"}, FALSE, FALSE, {"Call"}))
SpecDup == InitDup /\ [][NextDup]_vars

(* ------------------- functions of the configuration ------------------- *)
\* everything but eval
others == <<sessVars, regVars, stk, sess, scn, crashed>>
\* the strings of at most n characters over chars
Strings(chars, n) == UNION {[1..k -> chars] : k \in 0..n}
\* an evaluation of fn on arg that has not run yet
Pending(fn, arg) == [fn |-> fn, arg |-> arg, out |-> <<>>, done |-> FALSE]

DigitChars == <<"0", "1", "2", "3", "4", "5", "6", "7", "8", "9">>
\* strconv.Atoi: an optional sign, then one digit at least and digits only,
\* read most significant first; on an error the number is 0
Atoi(str) ==
  LET IsDigit(c) == \E d \in 1..10 : DigitChars[d] = c
      DigitValue(c) == (CHOOSE d \in 1..10 : DigitChars[d] = c) - 1
      RECURSIVE DecimalValue(_)
      DecimalValue(ds) ==
        IF ds = <<>> THEN 0
        ELSE DecimalValue(SubSeq(ds, 1, Len(ds) - 1)) * 10 + DigitValue(ds[Len(ds)])
      signed == str # <<>> /\ str[1] \in {"+", "-"}
      ds == IF signed THEN Tail(str) ELSE str
  IN IF ds = <<>> \/ \E k \in 1..Len(ds) : ~IsDigit(ds[k])
     THEN [ok |-> FALSE, n |-> 0]
     ELSE [ok |-> TRUE,
           n |-> IF signed /\ str[1] = "-" THEN 0 - DecimalValue(ds) ELSE DecimalValue(ds)]

DefaultParallelCount == 30
MaxParallelCount == 30
MinParallelCount == 1
\* a construction that checks the lower limit only
parallelCountNoMax(parallelNum) ==
  LET a == Atoi(parallelNum)
  IN IF ~a.ok \/ a.n < MinParallelCount THEN DefaultParallelCount ELSE a.n
\* part_000:236-241: the capacity NewRestClient gives the client's semaphore
parallelCount(parallelNum) ==
  LET a == Atoi(parallelNum)
  IN IF ~a.ok \/ a.n > MaxParallelCount \/ a.n < MinParallelCount
     THEN DefaultParallelCount
     ELSE a.n

\* longest configured parallelNum
MaxNumLen == 3
NumChars == {"+", "-", "0", "1", "3", "9", "x"}

\* part_000:232-260: NewRestClient chooses the capacity
NewRestClient ==
  /\ eval.fn = "NewRestClient" /\ ~eval.done
  /\ eval' = [eval EXCEPT !.out = parallelCount(eval.arg), !.done = TRUE]
  /\ UNCHANGED others

(* --------------------------- validateVolumeName ----------------------- *)
\* a template is a sequence of pieces: the two braces, white space and the
\* two field names; the text around a placeholder is any run of these pieces
PVCNamespaceField == ".PVCNamespace"
PVCNameField == ".PVCName"
TplPieces == {"{{", "}}", " ", PVCNamespaceField, PVCNameField}
\* longest template
MaxTplLen == 7

\* values.yaml:846-847,851: regexp.MatchString of \{\{\s*\.<field>\s*\}\}: the
\* expression matches somewhere in the template
MatchString(tpl, field) ==
  LET AllSpace(from, to) == \A k \in from..to : tpl[k] = " "
      MatchesAt(i) ==
        /\ tpl[i] = "{{"
        /\ \E j \in (i + 1)..Len(tpl), e \in (i + 2)..Len(tpl) :
             /\ j < e
             /\ AllSpace(i + 1, j - 1)
             /\ tpl[j] = field
             /\ AllSpace(j + 1, e - 1)
             /\ tpl[e] = "}}"
  IN \E i \in 1..Len(tpl) : MatchesAt(i)

\* a validation that is content with one of the two fields
validateVolumeNameEither(volumeNameTpl) ==
  IF ~MatchString(volumeNameTpl, PVCNamespaceField)
       /\ ~MatchString(volumeNameTpl, PVCNameField)
  THEN "PVCNamespace or PVCName must be configured"
  ELSE ""
\* values.yaml:850-857: the error of validateVolumeName, "" for nil
validateVolumeName(volumeNameTpl) ==
  IF ~MatchString(volumeNameTpl, PVCNamespaceField)
       \/ ~MatchString(volumeNameTpl, PVCNameField)
  THEN "PVCNamespace or PVCName must be configured"
  ELSE ""

ValidateVolumeName ==
  /\ eval.fn = "validateVolumeName" /\ ~eval.done
  /\ eval' = [eval EXCEPT !.out = validateVolumeName(eval.arg), !.done = TRUE]
  /\ UNCHANGED others

(* ---------------- newExtraCreateMetadataFromParameters ----------------- *)
PVCNamespaceKey == "PVCNamespaceKey"
PVCNameKey == "PVCNameKey"
PVNameKey == "PVNameKey"
MetadataKeys == <<PVCNamespaceKey, PVCNameKey, PVNameKey>>
NameChars == {"p", "-", "a"}
\* longest PV name, longest volume-name prefix
MaxNameLen == 4
MaxPrefixLen == 2

\* a TrimPrefix that never finds the prefix
TrimPrefixNever(str, prefix) == str
\* strings.TrimPrefix
TrimPrefix(str, prefix) ==
  IF Len(prefix) <= Len(str) /\ SubSeq(str, 1, Len(prefix)) = prefix
  THEN SubSeq(str, Len(prefix) + 1, Len(str))
  ELSE str
\* strings.ReplaceAll(str, old, "") for a one-character old
ReplaceAllByEmpty(str, old) == SelectSeq(str, LAMBDA c : c # old)
\* utils.GetValue[string] of a key that holds a string
GetValue(parameters, key) == parameters[key]

\* values.yaml:859-878: the result map and the error ("" for nil); the map
\* of a failure is nil, the empty map here
newExtraCreateMetadataFromParameters(parameters, VolumeNamePrefix) ==
  IF \E k \in 1..Len(MetadataKeys) : MetadataKeys[k] \notin DOMAIN parameters
  THEN [meta |-> <<>>, err |-> "metadata key not found"]
  ELSE LET pvName == GetValue(parameters, PVNameKey)
           pvcUid == ReplaceAllByEmpty(TrimPrefix(pvName, VolumeNamePrefix), "-")
       IN [meta |-> [PVCNamespace |-> GetValue(parameters, PVCNamespaceKey),
                     PVCName |-> GetValue(parameters, PVCNameKey),
                     PVName |-> pvName,
                     PVCUid |-> pvcUid],
           err |-> ""]

NewExtraCreateMetadata ==
  /\ eval.fn = "newExtraCreateMetadataFromParameters" /\ ~eval.done
  /\ eval' = [eval EXCEPT
                !.out = newExtraCreateMetadataFromParameters(eval.arg.parameters,
                                                             eval.arg.prefix),
                !.done = TRUE]
  /\ UNCHANGED others

\* the parameter maps: any of the three keys may be missing
ParameterMaps ==
  {[k \in has |-> IF k = PVNameKey THEN pv ELSE <<"a">>] :
     has \in SUBSET {PVCNamespaceKey, PVCNameKey, PVNameKey},
     pv \in Strings(NameChars, MaxNameLen)}

(* ------------- the functions of the configuration, evaluated ---------- *)
NextFn == NewRestClient \/ ValidateVolumeName \/ NewExtraCreateMetadata
InitFn ==
  /\ Constructed([p \in Procs |-> NoSession], 1,
                 Scenario(0, {""}, {"w1"}, FALSE, FALSE, {"Call"}))
  /\ \/ \E a \in Strings(NumChars, MaxNumLen) : eval = Pending("NewRestClient", a)
     \/ \E a \in Strings(TplPieces, MaxTplLen) : eval = Pending("validateVolumeName", a)
     \/ \E m \in ParameterMaps, pre \in Strings(NameChars, MaxPrefixLen) :
          eval = Pending("newExtraCreateMetadataFromParameters",
                         [parameters |-> m, prefix |-> pre])
SpecFn == InitFn /\ [][NextFn]_vars

(* ------------------- mountDisk (connector/nfs) ------------------------ *)
\* nfs_helper.go:39,41
fsInfoSegment == 2
unformattedFsCode == 2
\* an exit status of blkid other than 0 and 2, and a failure of the command
\* that is no exit status (err is not an *exec.ExitError)
OtherExitCode == unformattedFsCode + 1
NotExitError == 0 - 1
\* the lines blkid -o udev prints, as sequences of words and "=" signs
BlkidLines ==
  {<<"ID_FS_UUID", "=", "u1">>, <<"ID_FS_LABEL", "=", "a", "=", "b">>,
   <<"ID_FS_TYPE", "=", "ext4">>, <<"ID_FS_TYPE", "=", "xfs">>}
MaxLines == 2
\* the output of a successful blkid: every line ends with a newline
BlkidOutputs ==
  LET RECURSIVE Join(_)
      Join(ls) == IF ls = <<>> THEN <<>> ELSE Head(ls) \o <<"\n">> \o Join(Tail(ls))
  IN {Join(ls) : ls \in Strings(BlkidLines, MaxLines)}
AccessModes ==
  {"SINGLE_NODE_WRITER", "MULTI_NODE_READER_ONLY", "MULTI_NODE_MULTI_WRITER"}
\* what the node answers to one mountDisk: utils.PathExist, blkid,
\* connector.IsDeviceFormatted, connector.IsInFormatting, getDiskSizeType,
\* formatDisk, connUtils.MountToDir, connector.ResizeMountPath; and the access
\* mode of the volume
MountEnvs ==
  [exist : BOOLEAN,
   blkid : {[exit |-> 0, out |-> o] : o \in BlkidOutputs}
             \cup {[exit |-> c, out |-> <<>>] :
                     c \in {unformattedFsCode, OtherExitCode, NotExitError}},
   formatted : {"err", "yes", "no"},
   inFormatting : {"err", "yes", "no"},
   sizeOk : BOOLEAN, formatOk : BOOLEAN, mountOk : BOOLEAN, resizeOk : BOOLEAN,
   accessMode : AccessModes]

\* nfs_helper.go:152-183
getFSType(env) ==
  LET RECURSIVE Split(_, _)
      Split(str, sep) ==
        IF \A k \in 1..Len(str) : str[k] # sep THEN <<str>>
        ELSE LET k == CHOOSE i \in 1..Len(str) :
                        str[i] = sep /\ \A j \in 1..(i - 1) : str[j] # sep
             IN <<SubSeq(str, 1, k - 1)>> \o Split(SubSeq(str, k + 1, Len(str)), sep)
      lines == Split(env.blkid.out, "\n")
      fsInfo(k) == Split(lines[k], "=")
      hits == {k \in 1..Len(lines) :
                 Len(fsInfo(k)) = fsInfoSegment /\ fsInfo(k)[1] = <<"ID_FS_TYPE">>}
      first == CHOOSE k \in hits : \A j \in hits : k <= j
      Failed(msg) == [fs |-> <<>>, err |-> msg]
  IN IF ~env.exist THEN Failed("find the device failed")
     ELSE IF env.blkid.exit = unformattedFsCode
     THEN IF env.formatted = "err" THEN Failed("check device formatted failed")
          ELSE IF env.formatted = "yes" THEN Failed("maybe the device is formatted")
          ELSE [fs |-> <<>>, err |-> ""]
     ELSE IF env.blkid.exit # 0 THEN Failed("blkid")
     ELSE IF hits = {} THEN Failed("get fsType failed")
     ELSE [fs |-> fsInfo(first)[2], err |-> ""]

\* a mountDisk that does not ask whether the device is being formatted
mountDiskNoFormattingCheck(env) ==
  LET t == getFSType(env)
      Ran(ops, err) == [ops |-> ops, err |-> err]
  IN IF t.err # "" THEN Ran(<<>>, t.err)
     ELSE IF t.fs = <<>>
     THEN IF ~env.sizeOk THEN Ran(<<>>, "size")
          ELSE IF ~env.formatOk THEN Ran(<<"format">>, "format")
          ELSE Ran(<<"format", "mount">>, IF env.mountOk THEN "" ELSE "mount")
     ELSE IF ~env.mountOk THEN Ran(<<"mount">>, "mount")
     ELSE IF env.accessMode \in {"MULTI_NODE_MULTI_WRITER", "MULTI_NODE_READER_ONLY"}
     THEN Ran(<<"mount">>, "")
     ELSE Ran(<<"mount", "resize">>, IF env.resizeOk THEN "" ELSE "resize")
\* nfs_helper.go:244-301: the calls of formatDisk, MountToDir and
\* ResizeMountPath mountDisk makes, in order, and the error it returns
mountDisk(env) ==
  LET t == getFSType(env)
      Ran(ops, err) == [ops |-> ops, err |-> err]
  IN IF t.err # "" THEN Ran(<<>>, t.err)
     ELSE IF t.fs = <<>>
     THEN IF env.inFormatting = "err" THEN Ran(<<>>, "in formatting check")
          ELSE IF env.inFormatting = "yes"
          THEN Ran(<<>>, "the disk is in formatting, please wait")
          ELSE IF ~env.sizeOk THEN Ran(<<>>, "size")
          ELSE IF ~env.formatOk THEN Ran(<<"format">>, "format")
          ELSE Ran(<<"format", "mount">>, IF env.mountOk THEN "" ELSE "mount")
     ELSE IF ~env.mountOk THEN Ran(<<"mount">>, "mount")
     ELSE IF env.accessMode \in {"MULTI_NODE_MULTI_WRITER", "MULTI_NODE_READER_ONLY"}
     THEN Ran(<<"mount">>, "")
     ELSE Ran(<<"mount", "resize">>, IF env.resizeOk THEN "" ELSE "resize")

MountDisk ==
  /\ eval.fn = "mountDisk" /\ ~eval.done
  /\ eval' = [eval EXCEPT !.out = mountDisk(eval.arg), !.done = TRUE]
  /\ UNCHANGED others

\* one mountDisk on a node, for every answer of the node
NextMount == MountDisk
InitMount ==
  /\ Constructed([p \in Procs |-> NoSession], 1,
                 Scenario(0, {""}, {"w1"}, FALSE, FALSE, {"Call"}))
  /\ \E env \in MountEnvs : eval = Pending("mountDisk", env)
SpecMount == InitMount /\ [][NextMount]_vars

\* two goroutines call on one session with one address; the array may
\* answer a first request with "session expired"
NextStorm ==
  \E p \in Procs :
    \/ StartCall(p)
    \/ BaseCallStep(p) \/ BaseCallDefaultAcquire(p)
    \/ SessionStep(p) \/ CallReLogin(p) \/ CallSysInfo(p)
InitStorm ==
  InitWith([p \in Procs |-> "s1"], 1,
           Scenario(1, {""}, {"w1"}, FALSE, FALSE, {"Call"}))
SpecStorm == InitStorm /\ [][NextStorm]_vars

(* ------------------------------- claims ------------------------------- *)
AllUnconnected(g) == \A j \in 1..Len(g) : g[j].err = Unconnected
LoginFns == {"Login", "ValidateLogin"}

\* C1: Login and ValidateLogin try the addresses in list order, go on to the
\* next address only after an Unconnected failure, and stop at the first other
\* outcome; when every address is Unconnected each one has been tried once
\* and the login call fails with Unconnected.
LoginTriesInOrder ==
  \A p \in Procs : \A k \in 1..Len(stk[p]) :
    LET f == stk[p][k]
    IN (f.fn \in LoginFns /\ f.pc # "start") =>
         /\ Len(f.g) <= Len(f.u0)
         /\ \A j \in 1..Len(f.g) : f.g[j].url = f.u0[j]
         /\ \A j \in 1..(Len(f.g) - 1) : f.g[j].err = Unconnected
         /\ f.pc \in {"loop", "got"} => AllUnconnected(f.g) /\ f.i = Len(f.g) + 1
         /\ (f.pc = "resp" /\ AllUnconnected(f.g)) =>
              Len(f.g) = Len(f.u0) /\ f.res.err = Unconnected
\* every address of the longest list answered Unconnected
AllAddressesTried ==
  \E p \in Procs :
    /\ At(p, "Login", "resp")
    /\ Len(Top(p).g) = MaxUrls
    /\ AllUnconnected(Top(p).g)

\* the list with its i-th address moved behind all the others
MoveToBack(urls, i) ==
  SubSeq(urls, 1, i - 1) \o SubSeq(urls, i + 1, Len(urls)) \o <<urls[i]>>
\* C2: after a login that succeeded at index i the address list is the old
\* list with the i-th address moved to the final slot, the other addresses in
\* their old relative order.
SucceededMovesToBack ==
  \A p \in Procs : \A k \in 1..Len(stk[p]) :
    LET f == stk[p][k]
    IN (/\ f.fn \in LoginFns
        /\ f.pc \notin {"start", "loop", "got"}
        /\ Len(f.g) > 0
        /\ f.g[Len(f.g)].err = "") =>
         Urls[sess[p]] = MoveToBack(f.u0, Len(f.g))
\* C2 as amended: after a login that succeeded at index i the succeeded address
\* is in the final slot, the address that was last is in slot i, and every
\* other slot holds what it held.
SucceededSwapsWithLast ==
  \A p \in Procs : \A k \in 1..Len(stk[p]) :
    LET f == stk[p][k]
        i == Len(f.g)
        n == Len(f.u0)
        urls == Urls[sess[p]]
    IN (/\ f.fn \in LoginFns
        /\ f.pc \notin {"start", "loop", "got"}
        /\ Len(f.g) > 0
        /\ f.g[Len(f.g)].err = "") =>
         /\ Len(urls) = n
         /\ urls[n] = f.u0[i]
         /\ urls[i] = f.u0[n]
         /\ \A j \in 1..n : j \notin {i, n} => urls[j] = f.u0[j]
\* the first of three or more addresses succeeded
FirstOfThreeSucceeded ==
  \E p \in Procs :
    /\ At(p, "Login", "resp")
    /\ Len(Top(p).u0) >= 3
    /\ Len(Top(p).g) = 1
    /\ Top(p).g[1].err = ""
    /\ Urls[sess[p]] # MoveToBack(Top(p).u0, 1)

\* C3: a ReLogin that entered with token T0 and finds, once it holds the
\* lock, a non-empty token other than T0 returns success and calls nothing:
\* no Logout and no Login frame is ever above it.
ReLoginDeduplicates ==
  \A p \in Procs : \A k \in 1..Len(stk[p]) :
    LET f == stk[p][k]
    IN (/\ f.fn = "ReLogin" /\ f.pc # "lock"
        /\ f.g[1] # "" /\ f.g[1] # f.t) =>
         k = Len(stk[p]) /\ f.pc = "ret" /\ f.res.err = ""
\* B entered with T0, the other goroutine's Logout + Login has put another
\* token in place, B holds the lock
SecondReLoginSkips ==
  \E p \in Procs :
    /\ At(p, "ReLogin", "ret")
    /\ Top(p).t # ""
    /\ Top(p).g[1] \notin {"", Top(p).t}
    /\ ReLoginMutex[sess[p]] = p

CallFns == {"Call", "SafeCall"}

\* C4: one Call or SafeCall runs BaseCall at most twice; a second time only
\* after a first result that needs a relogin, a ReLogin without error and a
\* system-info refresh without error; the second result is what it returns.
CallSendsAtMostTwice ==
  \A p \in Procs : \A k \in 1..Len(stk[p]) :
    LET f == stk[p][k]
    IN f.fn \in CallFns =>
         /\ f.i \in {1, 2}
         /\ f.i = 2 =>
              /\ Len(f.g) >= 3
              /\ NeedReLogin(f.g[1])
              /\ f.g[2].err = ""
              /\ f.g[3].err = ""
         /\ (f.i = 2 /\ f.pc = "ret") => Len(f.g) = 4 /\ f.res = f.g[4]
\* the resent request was answered "session expired" again and is returned
SecondExpiryReturned ==
  \E p \in Procs :
    /\ InCall(p) /\ Top(p).pc = "ret"
    /\ Top(p).i = 2
    /\ NeedReLogin(Top(p).res)

\* Call frames of one stack that are in their relogin-and-refresh cycle
InReLoginCycle(st) ==
  {k \in 1..Len(st) : st[k].fn \in CallFns /\ st[k].pc \in {"relogin", "sysinfo"}}
\* C5: one invocation of Call goes through one relogin-and-refresh cycle at
\* most, whatever the array answers: no second cycle starts inside the first.
OneReLoginCyclePerCall ==
  \A p \in Procs : Cardinality(InReLoginCycle(stk[p])) <= 1

\* the goroutines whose request to device d is with the array
InFlightTo(d) ==
  {p \in Procs : InBaseCall(p) /\ Top(p).pc = "do" /\ Top(p).req.dev = d}
\* C6: the sessions of one device share one device-level semaphore, so the
\* requests in flight to the device, over all its sessions, never exceed the
\* device capacity, also when the first logins of the sessions overlap.
DeviceCapacityRespected ==
  Cardinality(InFlightTo(DeviceOfArray)) <= MaxStorageThreads

\* a BaseCall / SafeBaseCall frame whose request has been built
Built(f) == f.fn \in {"BaseCall", "SafeBaseCall"} /\ f.pc \notin {"entry", "build"}

\* C7: a built request carries the token header exactly when the session has
\* a token, and then that token; a login request carries none; the request
\* resent after a relogin carries the token of that login.
TokenHeaderFollowsLogin ==
  \A p \in Procs : \A k \in 1..Len(stk[p]) :
    LET f == stk[p][k]
    IN Built(f) =>
         /\ f.req.tok = Token[sess[p]]
         /\ f.url = LoginPath => f.req.tok = ""
         /\ (k > 1 /\ stk[p][k - 1].fn \in CallFns /\ stk[p][k - 1].i = 2) =>
              f.req.tok \in Tokens
\* the request resent after a relogin is with the array, with a token
ResentWithToken ==
  \E p \in Procs :
    /\ InBaseCall(p) /\ Top(p).pc = "do"
    /\ Top(p).url = LunPath
    /\ Len(stk[p]) = 2 /\ stk[p][1].i = 2
    /\ Top(p).req.tok \in Tokens

\* C8: no request other than a login or a logout is with the array while the
\* session has no token.
NoRequestWithoutToken ==
  \A p \in Procs :
    (InBaseCall(p) /\ Top(p).pc = "do" /\ ~IsSessionUrl(Top(p).url)) =>
      Token[sess[p]] # ""

\* goroutine p's request goes out to the array in this step
Sends(p) ==
  /\ InBaseCall(p) /\ Top(p).pc # "do"
  /\ stk'[p] # <<>> /\ Len(stk'[p]) = Len(stk[p])
  /\ stk'[p][Len(stk'[p])].pc = "do"
\* goroutine p's SafeBaseCall evaluates the site guard in this step and goes on
GuardDecides(p) ==
  /\ InBaseCall(p) /\ Top(p).pc = "guard"
  /\ ~IsSessionUrl(Top(p).url)
  /\ CurrentLifWwn[sess[p]] # ""
  /\ stk'[p] # stk[p]
\* the guard's step returned err to the caller of SafeBaseCall
GuardReturned(p, err) ==
  /\ Len(stk'[p]) = Len(stk[p]) - 1
  /\ stk'[p][Len(stk'[p])].res.err = err

ReLoginFailureReturned ==
  \A p \in Procs : \A k \in 1..Len(stk[p]) :
    LET f == stk[p][k]
    IN (f.fn \in CallFns /\ f.pc = "ret" /\ Len(f.g) >= 2) =>
         /\ f.g[2].err # "" =>
              f.i = 1 /\ Len(f.g) = 2 /\ f.res.err = f.g[2].err
         /\ (Len(f.g) = 3 /\ f.g[3].err # "") =>
              /\ f.i = 1
              /\ f.res.err = IF f.fn = "Call"
                             THEN "after relogin, can't get system info"
                             ELSE f.g[3].err
         /\ f.i = 1 => f.res.err # ""
\* ReLogin went through, the refresh failed, Call is about to return
RefreshFailureReturned ==
  \E p \in Procs :
    /\ InCall(p) /\ Top(p).pc = "ret"
    /\ Len(Top(p).g) = 3
    /\ Top(p).g[2].err = "" /\ Top(p).g[3].err # ""

LoginFailing(f) ==
  /\ f.fn \in LoginFns
  /\ \/ f.pc \in {"rejected", "failed"}
     \/ f.pc = "resp" /\ (f.res.err # "" \/ f.res.code # CodeOK)
\* C13: a login attempt that ends in failure (every address Unconnected, a
\* non-zero business code, an unusable payload) leaves the address list in
\* the order it had when the attempt began.
FailedLoginKeepsOrder ==
  \A p \in Procs : \A k \in 1..Len(stk[p]) :
    LoginFailing(stk[p][k]) => Urls[sess[p]] = stk[p][k].u0

\* how often address u is in the list
Occurrences(urls, u) == Cardinality({k \in 1..Len(urls) : urls[k] = u})
\* C14: no step of any operation changes the length of a session's address
\* list or how often an address is in it: the list stays a permutation of
\* the configured one.
UrlsStayPermutation ==
  [][\A s \in Sessions :
       /\ Len(Urls'[s]) = Len(Urls[s])
       /\ \A k \in 1..Len(UrlNames) :
            Occurrences(Urls'[s], UrlNames[k]) = Occurrences(Urls[s], UrlNames[k])]_vars
\* a list of three or more addresses is no longer in its configured order
UrlsReordered ==
  /\ Len(Urls["s1"]) >= 3
  /\ Urls["s1"] # SubSeq(UrlNames, 1, Len(Urls["s1"]))
  /\ \A k \in 1..Len(Urls["s1"]) : Occurrences(Urls["s1"], UrlNames[k]) = 1

\* C15: the deferred release of a device-level or default-bucket permit is
\* bound to the semaphore the permit was acquired from, whatever a concurrent
\* Login does to the device id between the lookups, and no lookup yields a
\* nil semaphore to acquire or release on.
ReleasedWhereAcquired ==
  /\ ~crashed
  /\ \A p \in Procs : \A k \in 1..Len(stk[p]) :
       LET f == stk[p][k]
       IN (f.fn \in {"BaseCall", "SafeBaseCall"} /\ f.pc \in {"guard", "do"} /\ f.acq # 0) =>
            f.sem = f.acq

\* the goroutines that hold a client-level permit of session s
HoldingPermit(s) ==
  {p \in Procs :
     /\ sess[p] = s /\ stk[p] # <<>>
     /\ Top(p).fn \in {"BaseCall", "SafeBaseCall"}
     /\ Top(p).pc \in {"devCheck", "devAcq", "devDefer", "defAcq", "guard", "do"}}
\* C16: the requests of one client between the acquisition of its permit and
\* the end of the exchange never outnumber the client's capacity, and the
\* permits counted as held are those of these requests.
ClientCapacityRespected ==
  \A s \in Sessions :
    /\ Cardinality(HoldingPermit(s)) <= ParallelCount
    /\ RequestSemaphore[s] = Cardinality(HoldingPermit(s))
\* the client is at capacity and another caller waits for a slot
CallerWaitsForSlot ==
  \E p, q \in Procs :
    /\ p # q /\ sess[p] = sess[q]
    /\ InBaseCall(p) /\ Top(p).pc = "acquire"
    /\ InBaseCall(q) /\ Top(q).pc = "do"
    /\ RequestSemaphore[sess[p]] = ParallelCount

\* the results of BaseCall that the frames of goroutine p hold
BaseCallResults(p) ==
  {r \in {stk[p][k].res : k \in 1..Len(stk[p])} : r.wire.kind # "none"}
\* C17: a body that decodes gives a nil error with the body's code and data,
\* code 0 or not; a body that is not JSON gives an empty response with a
\* decode error, which is not Unconnected, and the goroutine goes on.
OutcomeClassified ==
  \A p \in Procs : \A r \in BaseCallResults(p) :
    /\ r.wire.kind = "json" =>
         r.err = "" /\ r.code = r.wire.code /\ r.data = r.wire.data
    /\ r.wire.kind = "notJson" =>
         /\ r.err \notin {"", Unconnected}
         /\ r.code = CodeOK /\ r.data = NoData
         /\ ~crashed
\* a caller holds the decode error of a body that was not JSON
DecodeErrorReturned ==
  \E p \in Procs : \E r \in BaseCallResults(p) :
    r.wire.kind = "notJson" /\ r.err = "decode"

\* C18: a failure of Client.Do that is not a connectivity failure does not
\* come back as Unconnected.
OtherTransportFailureKept ==
  \A p \in Procs : \A r \in BaseCallResults(p) :
    r.wire.kind = "doOther" => r.err # Unconnected

\* C19: Logout returns to its caller for every reply, also for one whose
\* error object has no numeric code.
LogoutNeverRaises ==
  \A p \in Procs :
    ~(/\ crashed /\ stk[p] # <<>>
      /\ Top(p).fn = "Logout" /\ Top(p).pc = "got"
      /\ Top(p).res.wire.kind = "json" /\ Top(p).res.code = NoCode)

\* C20: a login rejected with a non-zero business code returns an error
\* that states the rejection; the backend-status sink has been called once
\* if the code is of a lockout class and not at all otherwise, and a failure
\* of the sink does not change that.
RejectionReported ==
  \A p \in Procs : \A k \in 1..Len(stk[p]) :
    LET f == stk[p][k]
    IN /\ (f.fn = "Login" /\ f.pc = "rejected") =>
            /\ f.res.err = "" /\ f.res.code # CodeOK
            /\ f.sink = (IF f.res.code = LockoutCode THEN 1 ELSE 0)
            /\ f.r.err \in {"login error",
                             "login error, setStorageBackendContentOffline failed"}
       /\ (f.fn = "Login" /\ f.pc # "rejected") => f.sink = 0
\* a lockout rejection whose report to the sink failed
LockoutSinkFailed ==
  \E p \in Procs :
    /\ At(p, "Login", "rejected")
    /\ Top(p).res.code = LockoutCode
    /\ Top(p).sink = 1
    /\ Top(p).r.err = "login error, setStorageBackendContentOffline failed"

\* C21: the client DuplicateClient returns has no transport, and no step a
\* goroutine takes on its own client changes the address list of the other
\* goroutine's client: original and duplicate reorder independently.
DuplicateIsIndependent ==
  [][/\ \A p, q \in Procs :
          (/\ p # q /\ sess[p] # NoSession /\ sess[q] # NoSession
           /\ stk'[p] # stk[p]) =>
            Urls'[sess[q]] = Urls[sess[q]]
     /\ \A q \in Procs :
          (sess[q] = NoSession /\ sess'[q] # NoSession) => ~Client'[sess'[q]]]_vars

\* the decimal numeral of n, without sign and leading zeros
RECURSIVE Numeral(_)
Numeral(n) ==
  IF n < 10 THEN <<DigitChars[n + 1]>>
  ELSE Numeral(n \div 10) \o <<DigitChars[(n % 10) + 1]>>
\* the strings that are read as the integer n >= 0: an optional "+", leading
\* zeros, the numeral
Spellings(n) ==
  {sign \o [k \in 1..z |-> "0"] \o Numeral(n) :
     sign \in {<<>>, <<"+">>}, z \in 0..MaxNumLen}
\* C22: the capacity chosen at construction is in 1..30: it is the configured
\* number when the configured string is read as an integer of 1..30, and the
\* default 30 for every other string.
CapacityInRange ==
  (eval.fn = "NewRestClient" /\ eval.done) =>
    /\ eval.out \in 1..30
    /\ \A n \in 1..30 : eval.arg \in Spellings(n) => eval.out = n
    /\ (\A n \in 1..30 : eval.arg \notin Spellings(n)) => eval.out = 30
\* a configured number above 30 gave the default
AboveRangeClamped ==
  /\ eval.fn = "NewRestClient" /\ eval.done
  /\ eval.arg = <<"3", "1">>
  /\ eval.out = 30

\* the placeholders of a field: the braces around the field, white space
\* allowed on either side of the field
Placeholders(field) ==
  {<<"{{">> \o [k \in 1..a |-> " "] \o <<field>> \o [k \in 1..b |-> " "] \o <<"}}">> :
     a \in 0..(MaxTplLen - 3), b \in 0..(MaxTplLen - 3)}
\* sub is a part of tpl
Contains(tpl, sub) ==
  \E i \in 1..Len(tpl) :
    i + Len(sub) - 1 <= Len(tpl) /\ SubSeq(tpl, i, i + Len(sub) - 1) = sub
HasPlaceholder(tpl, field) == \E ph \in Placeholders(field) : Contains(tpl, ph)
\* C23: validateVolumeName accepts a template exactly when it contains a
\* placeholder of PVCNamespace and a placeholder of PVCName, whatever text is
\* around them; the empty template is rejected.
BothPlaceholdersRequired ==
  (eval.fn = "validateVolumeName" /\ eval.done) =>
    /\ eval.out = "" <=>
         (HasPlaceholder(eval.arg, ".PVCNamespace") /\ HasPlaceholder(eval.arg, ".PVCName"))
    /\ eval.arg = <<>> => eval.out # ""
\* a template with white space inside the braces is accepted
SpacedTemplateAccepted ==
  /\ eval.fn = "validateVolumeName" /\ eval.done
  /\ eval.arg = <<"{{", " ", ".PVCNamespace", "}}", "{{", ".PVCName", "}}">>
  /\ eval.out = ""

\* str without its "-" characters
RECURSIVE Undashed(_)
Undashed(str) ==
  IF str = <<>> THEN <<>>
  ELSE IF Head(str) = "-" THEN Undashed(Tail(str))
  ELSE <<Head(str)>> \o Undashed(Tail(str))
\* C24: with one of the three keys missing the result is an error and the
\* nil map; with all three there is no error and the map has the entries
\* PVCNamespace, PVCName, PVName and PVCUid and no other, the first three as
\* given, PVCUid the PV name without the volume-name prefix at its front and
\* without any "-".
MetadataFromParameters ==
  (eval.fn = "newExtraCreateMetadataFromParameters" /\ eval.done) =>
    LET m == eval.arg.parameters
        pre == eval.arg.prefix
    IN IF DOMAIN m # {"PVCNamespaceKey", "PVCNameKey", "PVNameKey"}
       THEN eval.out.err # "" /\ eval.out.meta = <<>>
       ELSE /\ eval.out.err = ""
            /\ DOMAIN eval.out.meta = {"PVCNamespace", "PVCName", "PVName", "PVCUid"}
            /\ eval.out.meta.PVCNamespace = m["PVCNamespaceKey"]
            /\ eval.out.meta.PVCName = m["PVCNameKey"]
            /\ eval.out.meta.PVName = m["PVNameKey"]
            /\ \A rest \in Strings(NameChars, MaxNameLen) :
                 m["PVNameKey"] = pre \o rest => eval.out.meta.PVCUid = Undashed(rest)
            /\ (\A rest \in Strings(NameChars, MaxNameLen) : m["PVNameKey"] # pre \o rest) =>
                 eval.out.meta.PVCUid = Undashed(m["PVNameKey"])
\* prefix and dashes were taken out of a PV name
PrefixAndDashesRemoved ==
  /\ eval.fn = "newExtraCreateMetadataFromParameters" /\ eval.done
  /\ eval.arg.prefix = <<"p">>
  /\ eval.out.err = ""
  /\ eval.out.meta.PVName = <<"p", "-", "a", "-">>
  /\ eval.out.meta.PVCUid = <<"a">>

\* C25: a ReLogin made by a Call whose request carried token T0 and was
\* answered "session expired" leaves a newer token alone: when it finds,
\* under the lock, a token that is neither empty nor T0, it returns without
\* Logout and Login, whenever it read the token on its way in.
NoReLoginStorm ==
  \A p \in Procs : \A k \in 2..Len(stk[p]) :
    LET f == stk[p][k]
        c == stk[p][k - 1]
    IN (/\ f.fn = "ReLogin" /\ f.pc # "lock"
        /\ c.fn \in CallFns /\ c.pc = "relogin"
        /\ c.r.wire.tok # ""
        /\ f.g[1] \notin {"", c.r.wire.tok}) =>
         k = Len(stk[p]) /\ f.pc = "ret" /\ f.res.err = ""

\* the goroutines in a ReLogin on session s that are past its Lock
InReLoginCycleOn(s) ==
  {p \in Procs :
     sess[p] = s /\ \E k \in 1..Len(stk[p]) : stk[p][k].fn = "ReLogin" /\ stk[p][k].pc # "lock"}
\* C26: a session has one ReLogin past its Lock at most, that goroutine holds
\* ReLoginMutex, and every login or logout request made under a ReLogin is
\* made by the holder.
ReLoginsSerialised ==
  \A s \in Sessions :
    /\ Cardinality(InReLoginCycleOn(s)) <= 1
    /\ \A p \in InReLoginCycleOn(s) : ReLoginMutex[s] = p
    /\ \A p \in Procs :
         (/\ sess[p] = s /\ stk[p] # <<>> /\ stk[p][1].fn = "ReLogin"
          /\ InBaseCall(p) /\ IsSessionUrl(Top(p).url)) =>
           ReLoginMutex[s] = p
\* one ReLogin has its login request with the array, the other waits at Lock
SecondReLoginWaits ==
  \E p, q \in Procs :
    /\ p # q /\ sess[p] = sess[q]
    /\ stk[p] # <<>> /\ stk[p][1].fn = "ReLogin"
    /\ InBaseCall(p) /\ Top(p).url = LoginPath /\ Top(p).pc = "do"
    /\ At(q, "ReLogin", "lock")

\* C27: a ReLogin that does not take the shortcut and found a token runs
\* Logout, and Login only after Logout has returned; one that found no token
\* runs no Logout; the Login it runs takes the session's address list as it
\* is, first address first.
LogoutBeforeLogin ==
  \A p \in Procs : \A k \in 1..(Len(stk[p]) - 1) :
    LET f == stk[p][k]
        n == stk[p][k + 1]
    IN (f.fn = "ReLogin" /\ f.pc # "lock") =>
         /\ ~(f.g[1] # "" /\ f.g[1] # f.t)
         /\ n.fn \in {"Logout", "Login"}
         /\ n.fn = "Logout" => f.g[1] # "" /\ f.pc = "login" /\ f.i = 0
         /\ n.fn = "Login" =>
              /\ f.pc = "ret"
              /\ f.i = (IF f.g[1] # "" THEN 1 ELSE 0)
              /\ n.pc \in {"loop", "got"} =>
                   n.u0 = Urls[sess[p]] /\ (n.pc = "got" => n.t = Urls[sess[p]][n.i])
\* after the Logout of a session that had a token, the first login request
\* is with the array
LoginAfterLogout ==
  \E p \in Procs :
    /\ Len(stk[p]) = 3
    /\ stk[p][1].fn = "ReLogin" /\ stk[p][1].g[1] # "" /\ stk[p][1].i = 1
    /\ stk[p][2].fn = "Login" /\ stk[p][2].i = 1
    /\ InBaseCall(p) /\ Top(p).pc = "do"

\* goroutine p is inside SetSystemInfo
Refreshes(p) == \E k \in 1..Len(stk[p]) : stk[p][k].fn = "SetSystemInfo"
\* C28: SystemInfoRefreshing is 1 as long as a SetSystemInfo is under way on
\* the session, also when the refreshes of two goroutines overlap.
RefreshingWhileAnyRefresh ==
  \A p \in Procs :
    (sess[p] # NoSession /\ Refreshes(p)) => SystemInfoRefreshing[sess[p]] = 1

\* C29: while the guard would answer "refreshing", a SafeBaseCall on a path
\* other than login and logout never waits for a client-level or a
\* device-level permit that is not free.
FailsFastWhileRefreshing ==
  \A p \in Procs :
    (/\ InBaseCall(p) /\ Top(p).fn = "SafeBaseCall"
     /\ ~IsSessionUrl(Top(p).url)
     /\ CurrentLifWwn[sess[p]] # ""
     /\ SystemInfoRefreshing[sess[p]] = 1) =>
      /\ Top(p).pc = "acquire" => RequestSemaphore[sess[p]] < ParallelCount
      /\ (Top(p).pc = "devAcq" /\ RequestSemaphoreMap[DeviceId[sess[p]]] # 0) =>
           CanAcquire(RequestSemaphoreMap[DeviceId[sess[p]]])

\* C30: with one refresher, SystemInfoRefreshing is 1 when SetSystemInfo
\* sends its query, 0 as soon as SetSystemInfo has returned, with or without
\* an error, and 0 whenever no SetSystemInfo is under way.
RefreshingBracketsQuery ==
  \A p \in Procs :
    sess[p] # NoSession =>
      /\ \A k \in 1..(Len(stk[p]) - 1) :
           (/\ stk[p][k].fn = "SetSystemInfo"
            /\ stk[p][k + 1].i = 1 /\ stk[p][k + 1].pc = "got"
            /\ stk[p][k + 1].g = <<>>) =>
             SystemInfoRefreshing[sess[p]] = 1
      /\ (InCall(p) /\ Top(p).pc = "sysinfo") => SystemInfoRefreshing[sess[p]] = 0
      /\ ~Refreshes(p) => SystemInfoRefreshing[sess[p]] = 0
\* SetSystemInfo has returned the error of its query and the flag is 0
RefreshFailedFlagReset ==
  \E p \in Procs :
    /\ InCall(p) /\ Top(p).pc = "sysinfo"
    /\ Top(p).res.err # ""
    /\ SystemInfoRefreshing[sess[p]] = 0

\* the positions of a BaseCall after its request was built: waiting for a
\* permit, at the site guard or with the array
PastBuild == {"acquire", "devCheck", "devAcq", "devDefer", "defAcq", "guard", "do"}
\* C31 (as stated): no goroutine whose BaseCall waits for a permit or for the
\* response holds the session lock.
NoLockWhileWaiting ==
  \A p \in Procs :
    (InBaseCall(p) /\ Top(p).pc \in PastBuild) => ReLoginMutex[sess[p]] # p
\* C31 (amended): BaseCall takes the session lock on no login or logout path
\* and on every other path holds it for the construction of the request only;
\* a goroutine that holds the lock while its BaseCall waits for a permit or
\* for the response is inside a ReLogin, sending its logout or login request.
LockOnlyAroundBuild ==
  \A p \in Procs :
    InBaseCall(p) =>
      LET f == Top(p)
          s == sess[p]
      IN /\ f.pc = "build" => (~IsSessionUrl(f.url) /\ ReLoginMutex[s] = p)
         /\ (f.pc \in PastBuild /\ ~IsSessionUrl(f.url)) => ReLoginMutex[s] # p
         /\ (f.pc \in PastBuild /\ ReLoginMutex[s] = p) =>
              (IsSessionUrl(f.url) /\ p \in InReLoginCycleOn(s))
\* an ordinary request is with the array, its lock released, while a ReLogin
\* that holds the lock waits for the client-level permit
ReLoginWaitsForPermitWithLock ==
  \E p, q \in Procs :
    /\ p # q /\ sess[p] = sess[q]
    /\ InBaseCall(q) /\ ~IsSessionUrl(Top(q).url) /\ Top(q).pc = "do"
    /\ ReLoginMutex[sess[p]] = p
    /\ InBaseCall(p) /\ IsSessionUrl(Top(p).url) /\ Top(p).pc = "acquire"

\* C32: a step that writes the token, the device id, the active base url or
\* the address list of a session is taken by a goroutine that holds the
\* session's ReLoginMutex.
WritesUnderReLoginLock ==
  [][\A s \in Sessions :
       (<<Token[s], DeviceId[s], Url[s], Urls[s]>>' # <<Token[s], DeviceId[s], Url[s], Urls[s]>>) =>
         \E p \in Procs :
           sess[p] = s /\ stk'[p] # stk[p] /\ ReLoginMutex[s] = p]_vars

\* C33: a request that is with the array was sent by a BaseCall that holds
\* the client-level permit and one permit of the device registry, the one of
\* the session's device id or the one of the default bucket.
ExchangeUnderPermits ==
  \A p \in Procs :
    (InBaseCall(p) /\ Top(p).pc = "do") =>
      /\ RequestSemaphore[sess[p]] >= 1
      /\ Top(p).acq # 0
      /\ semHeld[Top(p).acq] >= 1

\* C34: a SafeCall whose SafeBaseCall returned the site-refreshing or the
\* stale-routing failure hands that result to its caller as it is: it has
\* made one base call, and no ReLogin and no SetSystemInfo run under it.
SiteFailureSurfaced ==
  \A p \in Procs : \A k \in 1..Len(stk[p]) :
    LET f == stk[p][k]
    IN (/\ f.fn \in {"Call", "SafeCall"} /\ f.g # <<>>
        /\ f.g[1].err \in {"refreshing", "stale"}) =>
         /\ k = Len(stk[p]) /\ f.pc = "ret"
         /\ f.i = 1 /\ f.g = <<f.res>>
\* a SafeCall is about to return the stale-routing failure of its one base call
StaleFailureSurfaced ==
  \E p \in Procs :
    /\ At(p, "SafeCall", "ret")
    /\ Top(p).res.err = "stale" /\ Top(p).g = <<Top(p).res>>

\* C35: the step a BaseCall or SafeBaseCall takes when the session has no
\* transport returns an error to its caller: no request was built or sent,
\* and the lock, the permits, the registry and every field of the session
\* are as before.
NilClientFailsAtOnce ==
  [][\A p \in Procs :
       (/\ InBaseCall(p) /\ Top(p).pc = "entry" /\ ~Client[sess[p]]
        /\ stk'[p] # stk[p]) =>
         /\ Len(stk'[p]) = Len(stk[p]) - 1
         /\ stk'[p][Len(stk'[p])].res.err # ""
         /\ stk'[p][Len(stk'[p])].res.wire = NoWire
         /\ UNCHANGED <<sessVars, regVars>>]_vars
\* a Call on a session without transport got the error; nothing is held
NilClientCallFailed ==
  \E p \in Procs :
    /\ InCall(p) /\ Top(p).pc = "got"
    /\ ~Client[sess[p]] /\ Top(p).res.err = "http client is nil"
    /\ ReLoginMutex[sess[p]] = Free /\ RequestSemaphore[sess[p]] = 0

\* goroutine p's BaseCall builds, in this step, a request on a path other
\* than login and logout
Builds(p) ==
  /\ InBaseCall(p) /\ ~IsSessionUrl(Top(p).url)
  /\ Top(p).pc \in {"entry", "build"}
  /\ Len(stk'[p]) = Len(stk[p])
  /\ stk'[p][Len(stk'[p])].pc = "acquire"
\* C36: a request on a path other than login and logout is built in one
\* step from the base url, the device id and the token the session has at
\* that moment, and at that moment no ReLogin on the session is between its
\* Lock and its return: the request is made of the state before a relogin or
\* of the state after it, never of the state Login is changing.
RequestFromOneLogin ==
  [][\A p \in Procs :
       Builds(p) =>
         /\ InReLoginCycleOn(sess[p]) = {}
         /\ stk'[p][Len(stk'[p])].req = GetRequest(sess[p], Top(p).url)]_vars
\* a request builder waits for the lock while the ReLogin of the other
\* goroutine, which found a token, has the token cleared by its Login
BuilderWaitsForReLogin ==
  \E p, q \in Procs :
    /\ p # q /\ sess[p] = sess[q]
    /\ InBaseCall(p) /\ ~IsSessionUrl(Top(p).url) /\ Top(p).pc = "entry"
    /\ stk[q] # <<>> /\ stk[q][1].fn = "ReLogin" /\ stk[q][1].t # ""
    /\ ReLoginMutex[sess[q]] = q
    /\ InLogin(q) /\ Token[sess[q]] = ""

\* C37: a goroutine that is in a call eventually returns from it.
EveryCallReturns ==
  \A p \in Procs : (stk[p] # <<>>) ~> (stk[p] = <<>>)

\* C38: the step in which a goroutine receives a duplicate leaves the client
\* of every goroutine that had one as it was: its transport is still
\* attached, and its address list, token and device id have the same values.
DuplicateLeavesOriginal ==
  [][\A p, q \in Procs :
       (/\ sess[p] # NoSession
        /\ sess[q] = NoSession /\ sess'[q] # NoSession) =>
         /\ Client'[sess[p]] = Client[sess[p]]
         /\ Urls'[sess[p]] = Urls[sess[p]]
         /\ Token'[sess[p]] = Token[sess[p]]
         /\ DeviceId'[sess[p]] = DeviceId[sess[p]]]_vars

\* goroutine p is in Logout or in the BaseCall Logout made
InLogout(p) ==
  /\ Running(p)
  /\ \/ Top(p).fn = "Logout"
     \/ /\ InBaseCall(p) /\ Len(stk[p]) >= 2
        /\ stk[p][Len(stk[p]) - 1].fn = "Logout"
\* C39: no step of Logout, the steps of its BaseCall and its return on
\* every outcome included, changes the token, the device id, the active
\* base url or the address list of the session.
LogoutKeepsSession ==
  [][\A p \in Procs :
       (InLogout(p) /\ stk'[p] # stk[p]) =>
         /\ Token'[sess[p]] = Token[sess[p]]
         /\ DeviceId'[sess[p]] = DeviceId[sess[p]]
         /\ Url'[sess[p]] = Url[sess[p]]
         /\ Urls'[sess[p]] = Urls[sess[p]]]_vars
\* the Logout of a ReLogin has returned and the session still holds the
\* token the ReLogin found
LoggedOutStillHoldsToken ==
  \E p \in Procs :
    /\ At(p, "ReLogin", "login")
    /\ Token[sess[p]] # "" /\ <<Token[sess[p]]>> = Top(p).g

\* the probe of the device found no filesystem: blkid ended with status 2
\* and the device is not formatted
ProbeFoundNone(env) ==
  env.exist /\ env.blkid.exit = unformattedFsCode /\ env.formatted = "no"
\* the probe found a filesystem: blkid printed a line ID_FS_TYPE=<type>
ProbeFoundType(env) ==
  /\ env.exist /\ env.blkid.exit = 0
  /\ \E k \in 1..(Len(env.blkid.out) - 3) :
       /\ (k = 1 \/ env.blkid.out[k - 1] = "\n")
       /\ env.blkid.out[k] = "ID_FS_TYPE" /\ env.blkid.out[k + 1] = "="
       /\ env.blkid.out[k + 3] = "\n"
\* C40: mountDisk formats only when the probe found no filesystem, without
\* error, and the device is not being formatted, and then formats before it
\* mounts; when the probe found a filesystem it mounts first; it resizes only
\* after a mount that succeeded and only when the access mode is neither
\* multi-node multi-writer nor multi-node read-only.
FormatsOnlyBlankDevice ==
  (eval.fn = "mountDisk" /\ eval.done) =>
    LET env == eval.arg
        ops == eval.out.ops
        Has(op) == \E k \in 1..Len(ops) : ops[k] = op
    IN /\ Has("format") =>
            /\ ProbeFoundNone(env) /\ env.inFormatting = "no"
            /\ ops[1] = "format" /\ \A k \in 2..Len(ops) : ops[k] = "mount"
       /\ (ProbeFoundNone(env) /\ Has("mount")) => (Has("format") /\ env.formatOk)
       /\ ProbeFoundType(env) => (ops # <<>> /\ ops[1] = "mount")
       /\ (~ProbeFoundNone(env) /\ ~ProbeFoundType(env)) => ops = <<>>
       /\ Has("resize") =>
            /\ ops = <<"mount", "resize">> /\ env.mountOk /\ ProbeFoundType(env)
            /\ env.accessMode \notin {"MULTI_NODE_MULTI_WRITER", "MULTI_NODE_READER_ONLY"}
\* a blank device that is not being formatted was formatted, then mounted
BlankDeviceFormattedThenMounted ==
  /\ eval.fn = "mountDisk" /\ eval.done
  /\ ProbeFoundNone(eval.arg) /\ eval.arg.inFormatting = "no"
  /\ eval.out = [ops |-> <<"format", "mount">>, err |-> ""]
====
